---- MODULE Spec2Model ----
(***************************************************************************)
(* Study-plan scheduling engine (src/src/utils/scheduling.ts and the       *)
(* lock-day management code appended to it) with its callers in            *)
(* LockDayManager.tsx and StudyPlanView.                                   *)
(*                                                                         *)
(* Units.  Hours are integers counted in thousandths of an hour (1000 = 1h)*)
(* so that the two-decimal rounding of distributeEvenly and the 70/20/10   *)
(* split of a two-decimal amount are exact.  Clock offsets ("minutes" in   *)
(* the source) are integers counted in hundredths of a minute (6000 = 1h), *)
(* so one thousandth of an hour is 6 ticks.  Dates are day numbers; the    *)
(* process runs in UTC, so toISOString and getDay agree on the day.        *)
(* Arithmetic is exact: the source's binary floating point is not modelled.*)
(***************************************************************************)
EXTENDS Integers, Sequences, FiniteSets, TLC

\* ------------------------------------------------------------------ units
\* the source rounds hours to hundredths and counts 60 minutes to the hour
Hundredths == 100
MinutesPerHour == 60
\* one hour in thousandths of an hour; one minute and one hour in ticks
HourUnit == 10 * Hundredths
TicksPerMinute == Hundredths
TicksPerHour == MinutesPerHour * TicksPerMinute
TicksPerHourUnit == TicksPerHour \div HourUnit
\* the 0.25h increment of distributeEvenly
QuarterHour == 250

Min2(a, b) == IF a < b THEN a ELSE b
Max2(a, b) == IF a > b THEN a ELSE b
CeilDiv(a, b) == (a + b - 1) \div b

RECURSIVE SumSeq(_)
SumSeq(s) == IF s = <<>> THEN 0 ELSE Head(s) + SumSeq(Tail(s))

\* ------------------------------------------------- distribution strategies
\* the remainder loop of distributeEvenly: add min(0.25, left) to day i
RECURSIVE distributeRemainder(_, _, _)
distributeRemainder(distribution, i, remainingToDistribute) ==
  IF i <= Len(distribution) /\ remainingToDistribute > 0
  THEN LET increment == Min2(QuarterHour, remainingToDistribute)
       IN distributeRemainder([distribution EXCEPT ![i] = @ + increment],
                              i + 1, remainingToDistribute - increment)
  ELSE distribution

\* distributeEvenly with the whole remainder put on the first day
distributeEvenlyUncapped(totalHours, days) ==
  LET baseHours == (totalHours \div (10 * days)) * 10
      remainder == ((totalHours - baseHours * days + 5) \div 10) * 10
  IN [i \in 1..days |-> IF i = 1 THEN baseHours + remainder ELSE baseHours]

distributeEvenly(totalHours, days) ==
  LET baseHours == (totalHours \div (10 * days)) * 10
      remainder == ((totalHours - baseHours * days + 5) \div 10) * 10
  IN distributeRemainder([i \in 1..days |-> baseHours], 1, remainder)

\* a split that ignores the thirds and their shares
distributeThirdsEvenly(totalHours, days, w1, w2, w3) == distributeEvenly(totalHours, days)

\* the three slices of distributeFrontLoad / distributeBackLoad, with the
\* shares of the first, second and final third given in tenths
distributeThirds(totalHours, days, w1, w2, w3) ==
  LET firstThird == CeilDiv(days, 3)
      secondThird == CeilDiv(days * 2, 3)
      secondThirdDays == secondThird - firstThird
      finalThirdDays == days - secondThird
      firstThirdDaily == distributeEvenly((totalHours * w1) \div 10, firstThird)
      secondThirdDaily == IF secondThirdDays > 0
                          THEN distributeEvenly((totalHours * w2) \div 10, secondThirdDays)
                          ELSE <<>>
      finalThirdDaily == IF finalThirdDays > 0
                         THEN distributeEvenly((totalHours * w3) \div 10, finalThirdDays)
                         ELSE <<>>
  IN [i \in 1..days |->
        IF i <= firstThird THEN firstThirdDaily[i]
        ELSE IF i <= secondThird THEN secondThirdDaily[i - firstThird]
        ELSE finalThirdDaily[i - secondThird]]

distributeFrontLoad(totalHours, days) == distributeThirds(totalHours, days, 7, 2, 1)

distributeBackLoad(totalHours, days) == distributeThirds(totalHours, days, 1, 2, 7)

calculateDailyHoursDistribution(totalHours, availableDays, strategy) ==
  IF availableDays = 0 THEN <<>>
  ELSE IF strategy = "front-load" THEN distributeFrontLoad(totalHours, availableDays)
  ELSE IF strategy = "back-load" THEN distributeBackLoad(totalHours, availableDays)
  ELSE distributeEvenly(totalHours, availableDays)

Strategies == {"even", "front-load", "back-load"}

\* ------------------------------------------------------- interval arithmetic
\* a clock string "HH:MM" is the pair of its two fields; the minutes field
\* keeps its fraction, exactly as `${hours}:${mins}` and split(':') do
minutesToTimeString(minutes) ==
  [hh |-> minutes \div TicksPerHour, mm |-> minutes % TicksPerHour]

timeStringToMinutes(timeString) == timeString.hh * TicksPerHour + timeString.mm

addHoursToTime(timeString, hours) ==
  minutesToTimeString(timeStringToMinutes(timeString) + hours * TicksPerHourUnit)

Clock(h, m) == [hh |-> h, mm |-> m * TicksPerMinute]

\* an absent time or date (a null slot, an unset originalTime / originalDate)
NoTime == [hh |-> -1, mm |-> 0]
NoDate == 0 - 1

\* ------------------------------------------------------------ the calendar
\* day 0 is a Wednesday; getDay is Date.prototype.getDay (0 = Sunday)
getDay(date) == (date + 3) % 7

\* ---------------------------------------------------------------- inputs
Settings ==
  [ dailyAvailableHours  |-> 1500,
    workDays             |-> {1, 2, 3, 4, 5},
    bufferDays           |-> 0,
    studyWindowStartHour |-> 9,
    studyWindowEndHour   |-> 12,
    minSessionLength     |-> 15,
    studyPlanMode        |-> "even" ]

Modes == {"even", "balanced", "eisenhower"}

\* a recurring weekday commitment 10:00-10:30 whose Friday (day 2) occurrence
\* is deleted, and a one-off commitment on day 1 moved from 11:00-12:00 to
\* 11:30-12:00 for that date
FixedCommitments ==
  << [ id |-> 1, startTime |-> Clock(10, 0), endTime |-> Clock(10, 30),
       recurring |-> TRUE, daysOfWeek |-> {1, 2, 3, 4, 5}, specificDates |-> {},
       deletedOccurrences |-> {2},
       modifiedOccurrences |-> [d \in {} |-> [startTime |-> NoTime, endTime |-> NoTime]] ],
     [ id |-> 2, startTime |-> Clock(11, 0), endTime |-> Clock(12, 0),
       recurring |-> FALSE, daysOfWeek |-> {}, specificDates |-> {1},
       deletedOccurrences |-> {},
       modifiedOccurrences |->
         [d \in {1} |-> [startTime |-> Clock(11, 30), endTime |-> Clock(12, 0)]] ] >>

\* ------------------------------------------------------ sequence helpers
SetMin(S) == CHOOSE x \in S : \A y \in S : x <= y
SetMax(S) == CHOOSE x \in S : \A y \in S : x >= y

\* studyPlans.find(plan => plan.date === date), as an index (0: not found)
findPlan(studyPlans, date) ==
  LET hits == {i \in 1..Len(studyPlans) : studyPlans[i].date = date}
  IN IF hits = {} THEN 0 ELSE SetMin(hits)

planIsLocked(studyPlans, date) ==
  LET i == findPlan(studyPlans, date)
  IN IF i = 0 THEN FALSE ELSE studyPlans[i].isLocked

\* ---------------------------------------------------- availability engine
sessionInterval(session) ==
  [start |-> timeStringToMinutes(session.startTime),
   end   |-> timeStringToMinutes(session.endTime)]

RECURSIVE MapIntervals(_)
MapIntervals(sessions) ==
  IF sessions = <<>> THEN <<>>
  ELSE <<sessionInterval(Head(sessions))>> \o MapIntervals(Tail(sessions))

commitmentApplies(commitment, date) ==
  /\ \/ commitment.recurring /\ getDay(date) \in commitment.daysOfWeek
     \/ ~commitment.recurring /\ date \in commitment.specificDates
  /\ date \notin commitment.deletedOccurrences

commitmentInterval(commitment, date) ==
  IF date \in DOMAIN commitment.modifiedOccurrences
  THEN sessionInterval(commitment.modifiedOccurrences[date])
  ELSE sessionInterval(commitment)

RECURSIVE commitmentIntervals(_, _)
commitmentIntervals(fixedCommitments, date) ==
  IF fixedCommitments = <<>> THEN <<>>
  ELSE (IF commitmentApplies(Head(fixedCommitments), date)
        THEN <<commitmentInterval(Head(fixedCommitments), date)>> ELSE <<>>)
       \o commitmentIntervals(Tail(fixedCommitments), date)

\* Array.prototype.sort((a, b) => a.start - b.start): stable
RECURSIVE insertByStart(_, _)
insertByStart(sorted, x) ==
  IF sorted = <<>> THEN <<x>>
  ELSE IF Head(sorted).start <= x.start
       THEN <<Head(sorted)>> \o insertByStart(Tail(sorted), x)
       ELSE <<x>> \o sorted

RECURSIVE sortByStart(_)
sortByStart(intervals) ==
  IF intervals = <<>> THEN <<>>
  ELSE insertByStart(sortByStart(SubSeq(intervals, 1, Len(intervals) - 1)),
                     intervals[Len(intervals)])

RECURSIVE mergeIntervals(_, _)
mergeIntervals(intervals, mergedIntervals) ==
  IF intervals = <<>> THEN mergedIntervals
  ELSE IF mergedIntervals = <<>>
          \/ mergedIntervals[Len(mergedIntervals)].end < Head(intervals).start
       THEN mergeIntervals(Tail(intervals), Append(mergedIntervals, Head(intervals)))
       ELSE mergeIntervals(Tail(intervals),
              [mergedIntervals EXCEPT ![Len(mergedIntervals)].end =
                  Max2(@, Head(intervals).end)])

\* the busy intervals without the fixed commitments
busyIntervalsOfSessions(date, studyPlans, fixedCommitments) ==
  LET i == findPlan(studyPlans, date)
  IN IF i = 0 THEN <<>>
     ELSE MapIntervals(SelectSeq(studyPlans[i].plannedTasks, LAMBDA s : s.status # "skipped"))

busyIntervalsOf(date, studyPlans, fixedCommitments) ==
  LET i == findPlan(studyPlans, date)
      existingSessions ==
        IF i = 0 THEN <<>>
        ELSE SelectSeq(studyPlans[i].plannedTasks, LAMBDA s : s.status # "skipped")
  IN MapIntervals(existingSessions) \o commitmentIntervals(fixedCommitments, date)

minSessionTicks(settings) ==
  (IF settings.minSessionLength = 0 THEN 15 ELSE settings.minSessionLength) * TicksPerMinute

makeSlot(from, to) ==
  [start |-> minutesToTimeString(from), end |-> minutesToTimeString(to),
   duration |-> to - from]

\* the walk over the merged intervals, then the final slot
RECURSIVE walkSlots(_, _, _, _, _)
walkSlots(mergedIntervals, currentTime, availableSlots, studyWindowEnd, minTicks) ==
  IF mergedIntervals = <<>>
  THEN IF currentTime < studyWindowEnd /\ studyWindowEnd - currentTime >= minTicks
       THEN Append(availableSlots, makeSlot(currentTime, studyWindowEnd))
       ELSE availableSlots
  ELSE walkSlots(Tail(mergedIntervals),
                 Max2(currentTime, Head(mergedIntervals).end),
                 IF Head(mergedIntervals).start > currentTime
                    /\ Head(mergedIntervals).start - currentTime >= minTicks
                 THEN Append(availableSlots, makeSlot(currentTime, Head(mergedIntervals).start))
                 ELSE availableSlots,
                 studyWindowEnd, minTicks)

\* the free windows of a day computed without looking at its lock
slotsIgnoringLock(date, studyPlans, settings, fixedCommitments) ==
  walkSlots(
    mergeIntervals(sortByStart(busyIntervalsOf(date, studyPlans, fixedCommitments)), <<>>),
    settings.studyWindowStartHour * TicksPerHour, <<>>,
    settings.studyWindowEndHour * TicksPerHour, minSessionTicks(settings))

getDailyAvailableTimeSlots(date, studyPlans, settings, fixedCommitments) ==
  IF planIsLocked(studyPlans, date) THEN <<>>
  ELSE walkSlots(
         mergeIntervals(sortByStart(busyIntervalsOf(date, studyPlans, fixedCommitments)), <<>>),
         settings.studyWindowStartHour * TicksPerHour, <<>>,
         settings.studyWindowEndHour * TicksPerHour, minSessionTicks(settings))

NoSlot == [found |-> FALSE, date |-> NoDate, startTime |-> NoTime, endTime |-> NoTime]

\* the last slot of the list that is long enough (0: none)
lastFit(availableSlots, requiredHours) ==
  LET fits == {k \in 1..Len(availableSlots) :
                 availableSlots[k].duration >= requiredHours * TicksPerHourUnit}
  IN IF fits = {} THEN 0 ELSE SetMax(fits)

\* the first slot of the list that is long enough (0: none)
firstFit(availableSlots, requiredHours) ==
  LET fits == {k \in 1..Len(availableSlots) :
                 availableSlots[k].duration >= requiredHours * TicksPerHourUnit}
  IN IF fits = {} THEN 0 ELSE SetMin(fits)

RECURSIVE searchDays(_, _, _, _, _, _, _)
searchDays(requiredHours, startDate, studyPlans, settings, fixedCommitments, maxDaysToSearch, dayOffset) ==
  IF dayOffset >= maxDaysToSearch THEN NoSlot
  ELSE LET dateString == startDate + dayOffset
       IN IF getDay(dateString) \notin settings.workDays
             \/ planIsLocked(studyPlans, dateString)
          THEN searchDays(requiredHours, startDate, studyPlans, settings,
                          fixedCommitments, maxDaysToSearch, dayOffset + 1)
          ELSE LET availableSlots ==
                     getDailyAvailableTimeSlots(dateString, studyPlans, settings, fixedCommitments)
                   k == firstFit(availableSlots, requiredHours)
               IN IF k # 0
                  THEN [found |-> TRUE, date |-> dateString,
                        startTime |-> availableSlots[k].start,
                        endTime |-> addHoursToTime(availableSlots[k].start, requiredHours)]
                  ELSE searchDays(requiredHours, startDate, studyPlans, settings,
                                  fixedCommitments, maxDaysToSearch, dayOffset + 1)

findNextAvailableTimeSlot(requiredHours, startDate, studyPlans, settings, fixedCommitments, maxDaysToSearch) ==
  searchDays(requiredHours, startDate, studyPlans, settings, fixedCommitments,
             maxDaysToSearch, 0)

\* --------------------------------------------------- remaining-work accountant
RECURSIVE allSessions(_)
allSessions(studyPlans) ==
  IF studyPlans = <<>> THEN <<>>
  ELSE Head(studyPlans).plannedTasks \o allSessions(Tail(studyPlans))

RECURSIVE sumHours(_)
sumHours(sessions) ==
  IF sessions = <<>> THEN 0 ELSE Head(sessions).allocatedHours + sumHours(Tail(sessions))

sameSession(s, session) ==
  s.taskId = session.taskId /\ s.sessionNumber = session.sessionNumber

isSessionLocked(session, studyPlans) ==
  LET hits == {i \in 1..Len(studyPlans) :
                 \E k \in 1..Len(studyPlans[i].plannedTasks) :
                    sameSession(studyPlans[i].plannedTasks[k], session)}
  IN IF hits = {} THEN FALSE ELSE studyPlans[SetMin(hits)].isLocked

\* the remaining hours with the hours on locked days still to be placed
remainingOffLockedDays(task, studyPlans) ==
  LET taskSessions == SelectSeq(allSessions(studyPlans), LAMBDA s : s.taskId = task.id)
      counted == SelectSeq(taskSessions,
                   LAMBDA s : s.done \/ s.status = "completed" \/ s.status = "skipped")
  IN Max2(0, task.estimatedHours - sumHours(counted))

\* the remaining hours with every session of the task counted as allocated
remainingCountingAll(task, studyPlans) ==
  LET taskSessions == SelectSeq(allSessions(studyPlans), LAMBDA s : s.taskId = task.id)
  IN Max2(0, task.estimatedHours - sumHours(taskSessions))

calculateRemainingTaskHours(task, studyPlans) ==
  LET taskSessions == SelectSeq(allSessions(studyPlans), LAMBDA s : s.taskId = task.id)
      counted == SelectSeq(taskSessions,
                   LAMBDA s : s.done \/ s.status = "completed" \/ s.status = "skipped"
                              \/ isSessionLocked(s, studyPlans))
  IN Max2(0, task.estimatedHours - sumHours(counted))

\* the plan's total: the hours of its sessions that are not skipped
totalOf(plannedTasks) ==
  sumHours(SelectSeq(plannedTasks, LAMBDA s : s.status # "skipped"))

\* the purge without its locked-day skip
removeTaskSessionsEverywhere(taskId, studyPlans) ==
  [i \in 1..Len(studyPlans) |->
     LET kept == SelectSeq(studyPlans[i].plannedTasks,
                   LAMBDA s : s.taskId # taskId \/ s.done
                              \/ s.status = "completed" \/ s.status = "skipped")
     IN [studyPlans[i] EXCEPT !.plannedTasks = kept, !.totalStudyHours = totalOf(kept)]]

\* no purge at all
keepTaskSessions(taskId, studyPlans) == studyPlans

removeUnlockedTaskSessions(taskId, studyPlans) ==
  [i \in 1..Len(studyPlans) |->
     IF studyPlans[i].isLocked THEN studyPlans[i]
     ELSE LET kept == SelectSeq(studyPlans[i].plannedTasks,
                        LAMBDA s : s.taskId # taskId \/ s.done
                                   \/ s.status = "completed" \/ s.status = "skipped")
          IN [studyPlans[i] EXCEPT !.plannedTasks = kept,
                                   !.totalStudyHours = totalOf(kept)]]

\* ------------------------------------------------------------ plan generator
\* a numbering that starts every pass at 1
firstSessionNumber(taskId, studyPlans) == 1

getNextSessionNumber(taskId, studyPlans) ==
  LET numbers == {s.sessionNumber : s \in
                    {x \in {allSessions(studyPlans)[k] : k \in 1..Len(allSessions(studyPlans))} :
                       x.taskId = taskId /\ x.sessionNumber # 0}}
  IN (IF numbers = {} THEN 0 ELSE Max2(0, SetMax(numbers))) + 1

addSessionToPlan(session, date, workingPlans, settings) ==
  LET found == findPlan(workingPlans, date)
      plans == IF found # 0 THEN workingPlans
               ELSE Append(workingPlans,
                      [date |-> date, plannedTasks |-> <<>>, totalStudyHours |-> 0,
                       availableHours |-> settings.dailyAvailableHours, isLocked |-> FALSE])
      i == IF found # 0 THEN found ELSE Len(workingPlans) + 1
  IN IF plans[i].isLocked THEN plans
     ELSE [plans EXCEPT ![i].plannedTasks = Append(@, session),
                        ![i].totalStudyHours = totalOf(Append(plans[i].plannedTasks, session))]

RECURSIVE daysFrom(_, _, _, _)
daysFrom(currentDate, deadline, workingPlans, settings) ==
  IF currentDate > deadline THEN <<>>
  ELSE (IF getDay(currentDate) \in settings.workDays
           /\ ~planIsLocked(workingPlans, currentDate)
        THEN <<currentDate>> ELSE <<>>)
       \o daysFrom(currentDate + 1, deadline, workingPlans, settings)

bufferedDeadline(task, settings) ==
  IF settings.bufferDays > 0 THEN task.deadline - settings.bufferDays ELSE task.deadline

getAvailableDaysForTask(task, workingPlans, settings, today) ==
  daysFrom(today, bufferedDeadline(task, settings), workingPlans, settings)

newSession(taskId, timeSlot, hours, sessionNumber) ==
  [taskId |-> taskId, startTime |-> timeSlot.startTime, endTime |-> timeSlot.endTime,
   allocatedHours |-> hours, sessionNumber |-> sessionNumber, status |-> "scheduled",
   done |-> FALSE, originalDate |-> NoDate, originalTime |-> NoTime]

\* the placement loop of scheduleTaskWithStrategy from day i on
RECURSIVE placeDays(_, _, _, _, _, _, _, _)
placeDays(task, availableDays, dailyHoursDistribution, i, sessionNumber, workingPlans, settings, fixedCommitments) ==
  IF i > Min2(Len(dailyHoursDistribution), Len(availableDays)) THEN workingPlans
  ELSE IF dailyHoursDistribution[i] > 0
  THEN LET timeSlot == findNextAvailableTimeSlot(dailyHoursDistribution[i], availableDays[i],
                          workingPlans, settings, fixedCommitments, 1)
       IN IF timeSlot.found /\ timeSlot.date = availableDays[i]
          THEN placeDays(task, availableDays, dailyHoursDistribution, i + 1, sessionNumber + 1,
                  addSessionToPlan(
                     newSession(task.id, timeSlot, dailyHoursDistribution[i], sessionNumber),
                     availableDays[i], workingPlans, settings),
                  settings, fixedCommitments)
          ELSE placeDays(task, availableDays, dailyHoursDistribution, i + 1, sessionNumber,
                         workingPlans, settings, fixedCommitments)
  ELSE placeDays(task, availableDays, dailyHoursDistribution, i + 1, sessionNumber,
                 workingPlans, settings, fixedCommitments)

scheduleTaskWithStrategy(task, strategy, workingPlans, settings, fixedCommitments, today) ==
  IF task.remainingHours <= 0 THEN workingPlans
  ELSE LET availableDays == getAvailableDaysForTask(task, workingPlans, settings, today)
       IN IF availableDays = <<>> THEN workingPlans
          ELSE placeDays(task, availableDays,
                 calculateDailyHoursDistribution(task.remainingHours, Len(availableDays), strategy),
                 1, getNextSessionNumber(task.id, workingPlans),
                 workingPlans, settings, fixedCommitments)

\* tasks scheduled one after the other, task k with the strategy strategies[k]
RECURSIVE scheduleAll(_, _, _, _, _, _)
scheduleAll(tasks, strategies, workingPlans, settings, fixedCommitments, today) ==
  IF tasks = <<>> THEN workingPlans
  ELSE scheduleAll(Tail(tasks), Tail(strategies),
         scheduleTaskWithStrategy(Head(tasks), Head(strategies), workingPlans,
                                  settings, fixedCommitments, today),
         settings, fixedCommitments, today)

\* urgent: Math.ceil of the days from now to the deadline is at most 3
isUrgent(task, today) == task.deadline - today <= 3

categorizeTasksEisenhower(tasks, today) ==
  [importantUrgent       |-> SelectSeq(tasks, LAMBDA t : t.importance /\ isUrgent(t, today)),
   importantNotUrgent    |-> SelectSeq(tasks, LAMBDA t : t.importance /\ ~isUrgent(t, today)),
   notImportantUrgent    |-> SelectSeq(tasks, LAMBDA t : ~t.importance /\ isUrgent(t, today)),
   notImportantNotUrgent |-> SelectSeq(tasks, LAMBDA t : ~t.importance /\ ~isUrgent(t, today))]

inSeq(x, s) == \E k \in 1..Len(s) : s[k] = x

\* a generator that spreads every task evenly
alwaysEven(task, quadrants) == "even"

getTaskDistributionStrategy(task, quadrants) ==
  IF inSeq(task, quadrants.importantUrgent) THEN "front-load"
  ELSE IF inSeq(task, quadrants.importantNotUrgent) THEN "even"
  ELSE IF inSeq(task, quadrants.notImportantUrgent) THEN "front-load"
  ELSE "back-load"

generateEisenhowerPlan(tasks, workingPlans, settings, fixedCommitments, today) ==
  LET quadrants == categorizeTasksEisenhower(tasks, today)
      priorityOrder == quadrants.importantUrgent \o quadrants.importantNotUrgent
                       \o quadrants.notImportantUrgent \o quadrants.notImportantNotUrgent
      strategies == [k \in 1..Len(priorityOrder) |->
                       getTaskDistributionStrategy(priorityOrder[k], quadrants)]
  IN scheduleAll(priorityOrder, strategies, workingPlans, settings, fixedCommitments, today)

evenStrategy(tasks) == [k \in 1..Len(tasks) |-> "even"]

generateBalancedPriorityPlan(tasks, workingPlans, settings, fixedCommitments, today) ==
  LET importantTasks == SelectSeq(tasks, LAMBDA t : t.importance)
      regularTasks == SelectSeq(tasks, LAMBDA t : ~t.importance)
  IN scheduleAll(regularTasks, evenStrategy(regularTasks),
        scheduleAll(importantTasks, evenStrategy(importantTasks), workingPlans, settings, fixedCommitments, today),
        settings, fixedCommitments, today)

\* the comparator of generateEvenDistributionPlan: a sorts before b, or ties
evenOrderLeq(a, b) ==
  IF a.importance # b.importance THEN a.importance ELSE a.deadline <= b.deadline

RECURSIVE insertTask(_, _)
insertTask(sorted, t) ==
  IF sorted = <<>> THEN <<t>>
  ELSE IF evenOrderLeq(Head(sorted), t)
       THEN <<Head(sorted)>> \o insertTask(Tail(sorted), t)
       ELSE <<t>> \o sorted

RECURSIVE sortTasks(_)
sortTasks(tasks) ==
  IF tasks = <<>> THEN <<>>
  ELSE insertTask(sortTasks(SubSeq(tasks, 1, Len(tasks) - 1)), tasks[Len(tasks)])

generateEvenDistributionPlan(tasks, workingPlans, settings, fixedCommitments, today) ==
  scheduleAll(sortTasks(tasks), evenStrategy(sortTasks(tasks)), workingPlans, settings, fixedCommitments, today)

RECURSIVE purgeAll(_, _)
purgeAll(tasks, workingPlans) ==
  IF tasks = <<>> THEN workingPlans
  ELSE purgeAll(Tail(tasks), removeUnlockedTaskSessions(Head(tasks).id, workingPlans))

withRemainingHours(tasks, workingPlans) ==
  LET pendingTasks == SelectSeq(tasks, LAMBDA t : t.status = "pending")
      attached == [k \in 1..Len(pendingTasks) |->
                     [id |-> pendingTasks[k].id,
                      estimatedHours |-> pendingTasks[k].estimatedHours,
                      deadline |-> pendingTasks[k].deadline,
                      importance |-> pendingTasks[k].importance,
                      status |-> pendingTasks[k].status,
                      remainingHours |->
                        calculateRemainingTaskHours(pendingTasks[k], workingPlans)]]
  IN SelectSeq(attached, LAMBDA t : t.remainingHours > 0)

generateNewStudyPlan(tasks, settings, fixedCommitments, existingPlans, today) ==
  LET tasksWithRemainingHours == withRemainingHours(tasks, existingPlans)
  IN IF tasksWithRemainingHours = <<>> THEN existingPlans
     ELSE LET workingPlans == purgeAll(tasksWithRemainingHours, existingPlans)
          IN IF settings.studyPlanMode = "eisenhower"
             THEN generateEisenhowerPlan(tasksWithRemainingHours, workingPlans, settings,
                                         fixedCommitments, today)
             ELSE IF settings.studyPlanMode = "balanced"
             THEN generateBalancedPriorityPlan(tasksWithRemainingHours, workingPlans, settings,
                                               fixedCommitments, today)
             ELSE generateEvenDistributionPlan(tasksWithRemainingHours, workingPlans, settings,
                                               fixedCommitments, today)

\* ------------------------------------------------------ session status
\* checkSessionStatus, for the answers its callers test.  For a past date the
\* source compares new Date(`${date}T${endTime}:00`) with now; an endTime whose
\* minutes carry a fraction ("09:25.8") is no ISO time, and what Date makes of
\* it is left to the engine: dateParses says whether it yields a valid date.
wholeMinutes(timeString) == timeString.mm % TicksPerMinute = 0

\* the status read from the stored fields alone, whatever the date
storedStatusOnly(session, planDate, today, dateParses) ==
  IF session.done \/ session.status = "completed" THEN "completed"
  ELSE IF session.status = "missed" THEN "missed"
  ELSE "scheduled"

checkSessionStatus(session, planDate, today, dateParses) ==
  IF session.done \/ session.status = "completed" THEN "completed"
  ELSE IF session.status = "missed" THEN "missed"
  ELSE IF planDate < today /\ (wholeMinutes(session.endTime) \/ dateParses) THEN "missed"
  ELSE "scheduled"

findTask(tasks, taskId) ==
  LET hits == {k \in 1..Len(tasks) : tasks[k].id = taskId}
  IN IF hits = {} THEN 0 ELSE SetMin(hits)

\* -------------------------------------------- missed-session redistribution
\* priority of a missed session; the days to the deadline are taken at the
\* start of today (the order of two candidates does not depend on the hour)
missedPriority(task, today) ==
  (IF task.importance THEN 1000 ELSE 0)
  + Max2(0, 100 - Max2(0, task.deadline - today))

RECURSIVE insertByPriority(_, _)
insertByPriority(sorted, x) ==
  IF sorted = <<>> THEN <<x>>
  ELSE IF Head(sorted).priority >= x.priority
       THEN <<Head(sorted)>> \o insertByPriority(Tail(sorted), x)
       ELSE <<x>> \o sorted

\* the candidates left in the order in which they were collected
keepCollectionOrder(items) == items

RECURSIVE sortByPriority(_)
sortByPriority(items) ==
  IF items = <<>> THEN <<>>
  ELSE insertByPriority(sortByPriority(SubSeq(items, 1, Len(items) - 1)), items[Len(items)])

RECURSIVE missedOfPlan(_, _, _, _, _)
missedOfPlan(sessions, planDate, tasks, today, dateParses) ==
  IF sessions = <<>> THEN <<>>
  ELSE LET session == Head(sessions)
           t == findTask(tasks, session.taskId)
       IN (IF checkSessionStatus(session, planDate, today, dateParses) = "missed"
              /\ session.status # "skipped"
              /\ t # 0 /\ tasks[t].status = "pending"
           THEN <<[session |-> session, planDate |-> planDate, task |-> tasks[t],
                   priority |-> missedPriority(tasks[t], today)]>>
           ELSE <<>>)
          \o missedOfPlan(Tail(sessions), planDate, tasks, today, dateParses)

\* the collection that does not skip locked plans
RECURSIVE collectMissedOnLockedToo(_, _, _, _)
collectMissedOnLockedToo(workingPlans, tasks, today, dateParses) ==
  IF workingPlans = <<>> THEN <<>>
  ELSE (IF Head(workingPlans).date >= today THEN <<>>
        ELSE missedOfPlan(Head(workingPlans).plannedTasks, Head(workingPlans).date,
                          tasks, today, dateParses))
       \o collectMissedOnLockedToo(Tail(workingPlans), tasks, today, dateParses)

RECURSIVE collectMissed(_, _, _, _)
collectMissed(workingPlans, tasks, today, dateParses) ==
  IF workingPlans = <<>> THEN <<>>
  ELSE (IF Head(workingPlans).isLocked \/ Head(workingPlans).date >= today THEN <<>>
        ELSE missedOfPlan(Head(workingPlans).plannedTasks, Head(workingPlans).date,
                          tasks, today, dateParses))
       \o collectMissed(Tail(workingPlans), tasks, today, dateParses)

\* plannedTasks.findIndex(same taskId and sessionNumber), 0: not found
findSessionIndex(plannedTasks, session) ==
  LET hits == {k \in 1..Len(plannedTasks) : sameSession(plannedTasks[k], session)}
  IN IF hits = {} THEN 0 ELSE SetMin(hits)

removeAt(s, k) == SubSeq(s, 1, k - 1) \o SubSeq(s, k + 1, Len(s))

\* a move that leaves the original session where it was
keepInOrigin(workingPlans, planDate, session) == workingPlans

\* the removal of the original session from its unlocked origin plan
removeFromOrigin(workingPlans, planDate, session) ==
  LET i == findPlan(workingPlans, planDate)
  IN IF i = 0 \/ workingPlans[i].isLocked THEN workingPlans
     ELSE LET k == findSessionIndex(workingPlans[i].plannedTasks, session)
          IN IF k = 0 THEN workingPlans
             ELSE [workingPlans EXCEPT
                     ![i].plannedTasks = removeAt(@, k),
                     ![i].totalStudyHours = totalOf(removeAt(workingPlans[i].plannedTasks, k))]

RECURSIVE moveMissed(_, _, _, _, _)
moveMissed(missedSessions, acc, settings, fixedCommitments, today) ==
  IF missedSessions = <<>> THEN acc
  ELSE LET m == Head(missedSessions)
           timeSlot == findNextAvailableTimeSlot(m.session.allocatedHours, today,
                          acc.updatedPlans, settings, fixedCommitments,
                          bufferedDeadline(m.task, settings) - today)
       IN IF timeSlot.found
          THEN LET moved == [m.session EXCEPT !.startTime = timeSlot.startTime,
                                              !.endTime = timeSlot.endTime,
                                              !.status = "rescheduled",
                                              !.originalTime = m.session.startTime,
                                              !.originalDate = m.planDate]
               IN moveMissed(Tail(missedSessions),
                    [acc EXCEPT
                       !.updatedPlans =
                          addSessionToPlan(moved, timeSlot.date,
                             removeFromOrigin(acc.updatedPlans, m.planDate, m.session),
                             settings),
                       !.movedSessions = Append(@, moved)],
                    settings, fixedCommitments, today)
          ELSE moveMissed(Tail(missedSessions),
                    [acc EXCEPT !.failedSessions = Append(@, m.session)],
                    settings, fixedCommitments, today)

redistributeMissedSessionsWithFeedback(studyPlans, settings, fixedCommitments, tasks, today, dateParses) ==
  LET missedSessions == sortByPriority(collectMissed(studyPlans, tasks, today, dateParses))
      done == moveMissed(missedSessions,
                [updatedPlans |-> studyPlans, movedSessions |-> <<>>, failedSessions |-> <<>>],
                settings, fixedCommitments, today)
  IN [updatedPlans   |-> done.updatedPlans,
      movedSessions  |-> done.movedSessions,
      failedSessions |-> done.failedSessions,
      feedback |-> [success           |-> missedSessions = <<>> \/ Len(done.movedSessions) > 0,
                    totalMissed       |-> Len(missedSessions),
                    successfullyMoved |-> Len(done.movedSessions),
                    failedToMove      |-> Len(done.failedSessions),
                    conflictsDetected |-> Len(done.failedSessions) > 0,
                    priorityOrderUsed |-> missedSessions # <<>>]]

\* ----------------------------------------------------- lock-induced eviction
RedistributionHorizon == 14

\* findAvailableTimeSlot: sorted (not merged) busy intervals of all sessions
\* of the day and its commitments; the need is rounded up to whole minutes
RECURSIVE firstGap(_, _, _, _)
firstGap(busyIntervals, currentTime, endOfDay, requiredMinutes) ==
  IF busyIntervals = <<>>
  THEN IF endOfDay - currentTime >= requiredMinutes
       THEN [found |-> TRUE, start |-> minutesToTimeString(currentTime),
             end |-> minutesToTimeString(currentTime + requiredMinutes)]
       ELSE [found |-> FALSE, start |-> NoTime, end |-> NoTime]
  ELSE IF Head(busyIntervals).start - currentTime >= requiredMinutes
       THEN [found |-> TRUE, start |-> minutesToTimeString(currentTime),
             end |-> minutesToTimeString(currentTime + requiredMinutes)]
       ELSE firstGap(Tail(busyIntervals), Max2(currentTime, Head(busyIntervals).end),
                     endOfDay, requiredMinutes)

findAvailableTimeSlot(requiredHours, existingSessions, fixedCommitments, settings, date) ==
  firstGap(sortByStart(MapIntervals(existingSessions)
                       \o commitmentIntervals(fixedCommitments, date)),
           settings.studyWindowStartHour * TicksPerHour,
           settings.studyWindowEndHour * TicksPerHour,
           CeilDiv(requiredHours * TicksPerHourUnit, TicksPerMinute) * TicksPerMinute)

NoTarget == [success |-> FALSE, targetDate |-> NoDate, startTime |-> NoTime, endTime |-> NoTime]

RECURSIVE searchTargets(_, _, _, _, _, _, _, _)
searchTargets(session, task, studyPlans, settings, fixedCommitments, originalDate, today, dayOffset) ==
  IF dayOffset >= RedistributionHorizon
     \/ today + dayOffset > bufferedDeadline(task, settings)
  THEN NoTarget
  ELSE LET targetDate == today + dayOffset
           i == findPlan(studyPlans, targetDate)
           existingSessions == IF i = 0 THEN <<>> ELSE studyPlans[i].plannedTasks
       IN IF getDay(targetDate) \notin settings.workDays
             \/ (i # 0 /\ studyPlans[i].isLocked)
             \/ targetDate = originalDate
             \/ sumHours(existingSessions) + session.allocatedHours
                  > settings.dailyAvailableHours
          THEN searchTargets(session, task, studyPlans, settings, fixedCommitments,
                             originalDate, today, dayOffset + 1)
          ELSE LET timeSlot == findAvailableTimeSlot(session.allocatedHours, existingSessions,
                                  fixedCommitments, settings, targetDate)
               IN IF timeSlot.found
                  THEN [success |-> TRUE, targetDate |-> targetDate,
                        startTime |-> timeSlot.start, endTime |-> timeSlot.end]
                  ELSE searchTargets(session, task, studyPlans, settings, fixedCommitments,
                                     originalDate, today, dayOffset + 1)

findBestRedistributionSlot(session, task, studyPlans, settings, fixedCommitments, originalDate, today) ==
  searchTargets(session, task, studyPlans, settings, fixedCommitments, originalDate, today, 0)

evictionPriority(task, today) ==
  (IF task.importance THEN 1000 ELSE 0)
  + (IF task.deadline - today <= 1 THEN 500
     ELSE IF task.deadline - today <= 3 THEN 300
     ELSE IF task.deadline - today <= 7 THEN 200 ELSE 0)

RECURSIVE lockedOfPlan(_, _, _, _)
lockedOfPlan(sessions, planDate, tasks, today) ==
  IF sessions = <<>> THEN <<>>
  ELSE LET t == findTask(tasks, Head(sessions).taskId)
       IN (IF t # 0 /\ tasks[t].status = "pending"
           THEN <<[session |-> Head(sessions), originalDate |-> planDate, task |-> tasks[t],
                   priority |-> evictionPriority(tasks[t], today)]>>
           ELSE <<>>)
          \o lockedOfPlan(Tail(sessions), planDate, tasks, today)

RECURSIVE collectLocked(_, _, _)
collectLocked(modifiedPlans, tasks, today) ==
  IF modifiedPlans = <<>> THEN <<>>
  ELSE (IF Head(modifiedPlans).isLocked
        THEN lockedOfPlan(Head(modifiedPlans).plannedTasks, Head(modifiedPlans).date,
                          tasks, today)
        ELSE <<>>)
       \o collectLocked(Tail(modifiedPlans), tasks, today)

\* an eviction that leaves a copy of the session on the locked day
keepOnLockedDay(modifiedPlans, originalDate, session) == modifiedPlans

\* the splice from the origin plan, the total adjusted incrementally
removeFromLocked(modifiedPlans, originalDate, session) ==
  LET i == findPlan(modifiedPlans, originalDate)
  IN IF i = 0 THEN modifiedPlans
     ELSE LET k == findSessionIndex(modifiedPlans[i].plannedTasks, session)
          IN IF k = 0 THEN modifiedPlans
             ELSE [modifiedPlans EXCEPT
                     ![i].plannedTasks = removeAt(@, k),
                     ![i].totalStudyHours = @ - session.allocatedHours]

\* an eviction that loses the session instead of placing it
dropEvicted(modifiedPlans, targetDate, session, settings) == modifiedPlans

\* the push onto the target plan, created without a lock flag when absent
addToTarget(modifiedPlans, targetDate, session, settings) ==
  LET found == findPlan(modifiedPlans, targetDate)
      plans == IF found # 0 THEN modifiedPlans
               ELSE Append(modifiedPlans,
                      [date |-> targetDate, plannedTasks |-> <<>>, totalStudyHours |-> 0,
                       availableHours |-> settings.dailyAvailableHours, isLocked |-> FALSE])
      i == IF found # 0 THEN found ELSE Len(modifiedPlans) + 1
  IN [plans EXCEPT ![i].plannedTasks = Append(@, session),
                   ![i].totalStudyHours = @ + session.allocatedHours]

RECURSIVE evictAll(_, _, _, _, _)
evictAll(lockedDaysSessions, acc, settings, fixedCommitments, today) ==
  IF lockedDaysSessions = <<>> THEN acc
  ELSE LET c == Head(lockedDaysSessions)
           r == findBestRedistributionSlot(c.session, c.task, acc.modifiedPlans, settings,
                                           fixedCommitments, c.originalDate, today)
       IN IF r.success
          THEN LET redistributedSession ==
                     [c.session EXCEPT !.startTime = r.startTime, !.endTime = r.endTime,
                                       !.originalDate = c.originalDate,
                                       !.originalTime = c.session.startTime,
                                       !.status = "rescheduled"]
               IN evictAll(Tail(lockedDaysSessions),
                    [acc EXCEPT
                       !.modifiedPlans =
                          addToTarget(
                             removeFromLocked(acc.modifiedPlans, c.originalDate, c.session),
                             r.targetDate, redistributedSession, settings),
                       !.redistributedSessions = Append(@, redistributedSession)],
                    settings, fixedCommitments, today)
          ELSE evictAll(Tail(lockedDaysSessions),
                    [acc EXCEPT !.failedSessions = Append(@, c.session)],
                    settings, fixedCommitments, today)

redistributeFromLockedDays(studyPlans, tasks, settings, fixedCommitments, today) ==
  LET done == evictAll(sortByPriority(collectLocked(studyPlans, tasks, today)),
                [modifiedPlans |-> studyPlans, redistributedSessions |-> <<>>,
                 failedSessions |-> <<>>],
                settings, fixedCommitments, today)
  IN [success |-> Len(done.redistributedSessions) > 0,
      redistributedSessions |-> done.redistributedSessions,
      failedSessions |-> done.failedSessions,
      modifiedPlans |-> done.modifiedPlans]

\* ------------------------------------------------------------ lock governance
\* a pending test that lets rescheduled sessions pass
isScheduledSession(session) == ~session.done /\ session.status = "scheduled"

isPendingSession(session) ==
  ~session.done /\ session.status \notin {"completed", "skipped", "missed"}

canLockDay(date, studyPlans) ==
  LET i == findPlan(studyPlans, date)
      pendingSessions == IF i = 0 THEN <<>>
                         ELSE SelectSeq(studyPlans[i].plannedTasks, isPendingSession)
  IN [canLock |-> pendingSessions = <<>>, pendingSessions |-> Len(pendingSessions)]

lockDay(date, studyPlans) ==
  IF ~canLockDay(date, studyPlans).canLock THEN [ok |-> FALSE, plans |-> studyPlans]
  ELSE LET i == findPlan(studyPlans, date)
       IN [ok |-> TRUE,
           plans |-> IF i = 0
                     THEN Append(studyPlans,
                            [date |-> date, plannedTasks |-> <<>>, totalStudyHours |-> 0,
                             availableHours |-> 0, isLocked |-> TRUE])
                     ELSE [studyPlans EXCEPT ![i].isLocked = TRUE]]

\* an unlock that leaves availableHours as it is
unlockKeepingHours(date, studyPlans, settings) ==
  LET i == findPlan(studyPlans, date)
  IN IF i = 0 THEN [ok |-> FALSE, plans |-> studyPlans]
     ELSE [ok |-> TRUE, plans |-> [studyPlans EXCEPT ![i].isLocked = FALSE]]

unlockDay(date, studyPlans, settings) ==
  LET i == findPlan(studyPlans, date)
  IN IF i = 0 THEN [ok |-> FALSE, plans |-> studyPlans]
     ELSE [ok |-> TRUE,
           plans |-> [studyPlans EXCEPT ![i].isLocked = FALSE,
                                        ![i].availableHours = settings.dailyAvailableHours]]

\* validateDayLock's verdict: no blocker, a blocker being a session of an
\* important task whose deadline is at most 2 days after the date
validateDayLock(date, studyPlans, tasks) ==
  LET i == findPlan(studyPlans, date)
      plannedSessions == IF i = 0 THEN <<>> ELSE studyPlans[i].plannedTasks
      criticalSessions ==
        SelectSeq(plannedSessions,
          LAMBDA s : LET t == findTask(tasks, s.taskId)
                     IN t # 0 /\ tasks[t].deadline - date <= 2 /\ tasks[t].importance)
  IN [canLock |-> criticalSessions = <<>>, affectedSessions |-> plannedSessions]

\* a validation that looks at the presence and the lock flag of the plans only
validateLockFlagsOnly(originalPlans, updatedPlans) ==
  LET lost == {i \in 1..Len(originalPlans) :
                 /\ originalPlans[i].isLocked
                 /\ ~planIsLocked(updatedPlans, originalPlans[i].date)}
  IN [isValid |-> lost = {}, violations |-> Cardinality(lost)]

validateLockedDaysIntegrity(originalPlans, updatedPlans) ==
  LET violationsOf(i) ==
        LET originalPlan == originalPlans[i]
            u == findPlan(updatedPlans, originalPlan.date)
        IN IF ~originalPlan.isLocked THEN 0
           ELSE IF u = 0 THEN 1
           ELSE (IF ~updatedPlans[u].isLocked THEN 1 ELSE 0)
                + (IF Len(originalPlan.plannedTasks) # Len(updatedPlans[u].plannedTasks)
                   THEN 1 ELSE 0)
                + Cardinality({k \in 1..Len(originalPlan.plannedTasks) :
                     \/ k > Len(updatedPlans[u].plannedTasks)
                     \/ originalPlan.plannedTasks[k].startTime
                          # updatedPlans[u].plannedTasks[k].startTime
                     \/ originalPlan.plannedTasks[k].endTime
                          # updatedPlans[u].plannedTasks[k].endTime
                     \/ originalPlan.plannedTasks[k].allocatedHours
                          # updatedPlans[u].plannedTasks[k].allocatedHours})
      RECURSIVE count(_)
      count(i) == IF i = 0 THEN 0 ELSE violationsOf(i) + count(i - 1)
  IN [isValid |-> count(Len(originalPlans)) = 0, violations |-> count(Len(originalPlans))]

\* ------------------------------------------------------------ session merging
\* the characters of a clock string as numbers ('.' and ':' sort before the
\* digits): hours padded to two digits, minutes padded to two digits unless
\* they carry a fraction, which already makes the text three characters long
hourChars(hh) == <<hh \div 10, hh % 10>>

minuteChars(mm) ==
  LET whole == mm \div TicksPerMinute
      frac == mm % TicksPerMinute
  IN IF frac = 0 THEN <<whole \div 10, whole % 10>>
     ELSE (IF whole >= 10 THEN <<whole \div 10, whole % 10>> ELSE <<whole>>)
          \o <<-1>>
          \o (IF frac % 10 = 0 THEN <<frac \div 10>> ELSE <<frac \div 10, frac % 10>>)

timeChars(timeString) == hourChars(timeString.hh) \o <<-2>> \o minuteChars(timeString.mm)

RECURSIVE lexLeq(_, _)
lexLeq(a, b) ==
  IF a = <<>> THEN TRUE
  ELSE IF b = <<>> THEN FALSE
  ELSE IF Head(a) < Head(b) THEN TRUE
  ELSE IF Head(a) > Head(b) THEN FALSE
  ELSE lexLeq(Tail(a), Tail(b))

\* a.startTime.localeCompare(b.startTime) <= 0
localeCompareLeq(a, b) == lexLeq(timeChars(a), timeChars(b))

RECURSIVE insertByStartTime(_, _)
insertByStartTime(sorted, x) ==
  IF sorted = <<>> THEN <<x>>
  ELSE IF localeCompareLeq(Head(sorted).startTime, x.startTime)
       THEN <<Head(sorted)>> \o insertByStartTime(Tail(sorted), x)
       ELSE <<x>> \o sorted

RECURSIVE sortByStartTime(_)
sortByStartTime(sessions) ==
  IF sessions = <<>> THEN <<>>
  ELSE insertByStartTime(sortByStartTime(SubSeq(sessions, 1, Len(sessions) - 1)),
                         sessions[Len(sessions)])

isOpenSession(session) ==
  session.status # "skipped" /\ ~session.done /\ session.status # "completed"

\* the keys of taskGroups in insertion order
RECURSIVE groupKeys(_, _)
groupKeys(sessions, seen) ==
  IF sessions = <<>> THEN seen
  ELSE groupKeys(Tail(sessions),
         IF isOpenSession(Head(sessions)) /\ ~inSeq(Head(sessions).taskId, seen)
         THEN Append(seen, Head(sessions).taskId) ELSE seen)

\* a merge that keeps the first session of the group and drops the others
combineDroppingHours(plannedTasks, taskId, group, settings) ==
  IF Len(group) > 1
  THEN Append(SelectSeq(plannedTasks, LAMBDA s : s.taskId # taskId \/ ~isOpenSession(s)),
              group[1])
  ELSE plannedTasks

combineGroup(plannedTasks, taskId, group, settings) ==
  LET sessions == sortByStartTime(group)
      totalHours == sumHours(sessions)
      maxSessionLength == Min2(4 * HourUnit, settings.dailyAvailableHours)
      minSessionLength ==
        ((IF settings.minSessionLength = 0 THEN 15 ELSE settings.minSessionLength)
           * HourUnit) \div 60
      combinedSession ==
        [sessions[1] EXCEPT
           !.endTime = addHoursToTime(sessions[1].startTime, totalHours),
           !.allocatedHours = totalHours,
           !.sessionNumber =
              SetMin({IF sessions[k].sessionNumber = 0 THEN 1 ELSE sessions[k].sessionNumber :
                        k \in 1..Len(sessions)})]
  IN IF Len(group) > 1 /\ totalHours >= minSessionLength /\ totalHours <= maxSessionLength
     THEN Append(SelectSeq(plannedTasks,
                   LAMBDA s : s.taskId # taskId \/ s.done
                              \/ s.status = "completed" \/ s.status = "skipped"),
                 combinedSession)
     ELSE plannedTasks

RECURSIVE combineGroups(_, _, _, _)
combineGroups(plannedTasks, original, keys, settings) ==
  IF keys = <<>> THEN plannedTasks
  ELSE combineGroups(
         combineGroup(plannedTasks, Head(keys),
            SelectSeq(original, LAMBDA s : isOpenSession(s) /\ s.taskId = Head(keys)),
            settings),
         original, Tail(keys), settings)

combineSessionsOnSameDay(studyPlans, settings) ==
  [i \in 1..Len(studyPlans) |->
     IF studyPlans[i].isLocked THEN studyPlans[i]
     ELSE LET merged == combineGroups(studyPlans[i].plannedTasks, studyPlans[i].plannedTasks,
                                      groupKeys(studyPlans[i].plannedTasks, <<>>), settings)
          IN [studyPlans[i] EXCEPT !.plannedTasks = merged,
                                   !.totalStudyHours = totalOf(merged)]]

\* ------------------------------------------------------- working copies
\* What the caller's collection shows once the callee has turned its working
\* copy into `working`.  Plans are only ever appended to a collection, so the
\* i-th plan of the working copy is the copy of the caller's i-th plan.

\* a working copy that shares its plan objects with the caller's collection
aliasedView(studyPlans, working) == [i \in 1..Len(studyPlans) |-> working[i]]

\* JSON.parse(JSON.stringify(studyPlans)): no object is shared
jsonCopyView(studyPlans, working) == studyPlans

\* [...studyPlans]: a new array of the same plan objects, whose fields the
\* callee assigns in place
spreadCopyView(studyPlans, working) == [i \in 1..Len(studyPlans) |-> working[i]]

\* ------------------------------------------------ callbacks of the host view
\* onToggleDayLock(date, isLocked): the owner of the plans sets the flag of
\* the date's plan
onToggleDayLock(studyPlans, date, isLocked) ==
  LET i == findPlan(studyPlans, date)
  IN IF i = 0 THEN studyPlans ELSE [studyPlans EXCEPT ![i].isLocked = isLocked]

\* the external "mark session done / skipped" action
markSession(studyPlans, date, k, status) ==
  LET i == findPlan(studyPlans, date)
  IN [studyPlans EXCEPT
        ![i].plannedTasks[k].status = status,
        ![i].plannedTasks[k].done = (status = "completed"),
        ![i].totalStudyHours = totalOf([studyPlans[i].plannedTasks EXCEPT ![k].status = status])]

\* ------------------------------------------------------- the state machine
VARIABLES plans, tasks, today, last, steps, dTotal, dDays, dStrategy, dOut, dPhase,
          uPlans, uCommitments, uArgs, uOut, uPhase

vars == <<plans, tasks, today, last, steps, dTotal, dDays, dStrategy, dOut, dPhase,
          uPlans, uCommitments, uArgs, uOut, uPhase>>
mainVars == <<plans, tasks, today, last, steps>>
dvars == <<dTotal, dDays, dStrategy, dOut, dPhase>>
uvars == <<uPlans, uCommitments, uArgs, uOut, uPhase>>

\* the last day the clock is advanced to, and the number of operations of a run
MaxToday == 1
MaxSteps == 4

\* the same for the longer runs of the day-after flows
MaxLongToday == 2
MaxLongSteps == 5

Task(id, estimatedHours, deadline, importance) ==
  [id |-> id, estimatedHours |-> estimatedHours, deadline |-> deadline,
   importance |-> importance, status |-> "pending"]

\* two task lists: a 1.25h task due on day 2 and a 3h task due on day 5, of
\* which either the first or the second is the important one
TaskLists ==
  { <<Task(1, 1250, 2, TRUE), Task(2, 3000, 5, FALSE)>>,
    <<Task(1, 1250, 2, FALSE), Task(2, 3000, 5, TRUE)>> }

settingsFor(mode) == [Settings EXCEPT !.studyPlanMode = mode]

NoOp ==
  [op |-> "none", before |-> <<>>, input |-> <<>>, mode |-> "even", date |-> NoDate,
   moved |-> <<>>, failed |-> <<>>, success |-> FALSE,
   details |-> [totalMissed |-> 0, successfullyMoved |-> 0, failedToMove |-> 0]]

planDates(studyPlans) == {studyPlans[i].date : i \in 1..Len(studyPlans)}

DistIdle ==
  /\ dTotal = 0 /\ dDays = 0 /\ dStrategy = "even" /\ dOut = <<>> /\ dPhase = "off"

UnitIdle ==
  /\ uPlans = <<>> /\ uCommitments = <<>> /\ uArgs = <<>> /\ uOut = <<>> /\ uPhase = "off"

Init ==
  /\ plans = <<>>
  /\ tasks \in TaskLists
  /\ today = 0
  /\ last = NoOp
  /\ steps = 0
  /\ DistIdle
  /\ UnitIdle

\* "generate study plan" in one of the three modes
Generate(mode) ==
  /\ plans' = generateNewStudyPlan(tasks, settingsFor(mode), FixedCommitments, plans, today)
  /\ last' = [NoOp EXCEPT !.op = "generate", !.before = plans, !.mode = mode,
                          !.input = jsonCopyView(plans, plans')]
  /\ UNCHANGED <<tasks, today>>

RedistributeMissed(dateParses) ==
  \E result \in {redistributeMissedSessionsWithFeedback(plans, Settings, FixedCommitments, tasks, today, dateParses)} :
     /\ plans' = result.updatedPlans
     /\ last' = [NoOp EXCEPT !.op = "missed", !.before = plans,
                             !.input = jsonCopyView(plans, result.updatedPlans),
                             !.moved = result.movedSessions,
                             !.failed = result.failedSessions,
                             !.success = result.feedback.success,
                             !.details = [totalMissed |-> result.feedback.totalMissed,
                                          successfullyMoved |-> result.feedback.successfullyMoved,
                                          failedToMove |-> result.feedback.failedToMove]]
     /\ UNCHANGED <<tasks, today>>

Combine ==
  /\ plans' = combineSessionsOnSameDay(plans, Settings)
  /\ last' = [NoOp EXCEPT !.op = "combine", !.before = plans,
                          !.input = spreadCopyView(plans, plans')]
  /\ UNCHANGED <<tasks, today>>

\* LockDayManager.handleBulkRedistribution
BulkRedistribute ==
  /\ \E i \in 1..Len(plans) : plans[i].isLocked
  /\ \E redistributionResult \in {redistributeFromLockedDays(plans, tasks, Settings, FixedCommitments, today)} :
     /\ plans' = IF redistributionResult.success
                 THEN redistributionResult.modifiedPlans ELSE plans
     /\ last' = [NoOp EXCEPT !.op = "bulk", !.before = plans,
                             !.input = jsonCopyView(plans, redistributionResult.modifiedPlans),
                             !.moved = redistributionResult.redistributedSessions,
                             !.failed = redistributionResult.failedSessions,
                             !.success = redistributionResult.success]
     /\ UNCHANGED <<tasks, today>>

\* LockDayButton.handleLockToggle on a locked day
ButtonUnlock(date) ==
  /\ planIsLocked(plans, date)
  /\ \E redistributionResult \in {redistributeFromLockedDays(plans, tasks, Settings, FixedCommitments, today)} :
     /\ plans' = onToggleDayLock(
                   IF redistributionResult.success
                   THEN redistributionResult.modifiedPlans ELSE plans,
                   date, FALSE)
     /\ last' = [NoOp EXCEPT !.op = "buttonUnlock", !.before = plans, !.date = date,
                             !.input = jsonCopyView(plans, redistributionResult.modifiedPlans),
                             !.moved = redistributionResult.redistributedSessions,
                             !.failed = redistributionResult.failedSessions,
                             !.success = redistributionResult.success]
     /\ UNCHANGED <<tasks, today>>

\* LockDayButton.handleLockToggle on an unlocked day, directly or through the
\* confirmation dialog, whose button is disabled unless canLock
ButtonLock(date) ==
  /\ date \in planDates(plans)
  /\ ~planIsLocked(plans, date)
  /\ validateDayLock(date, plans, tasks).canLock
  /\ plans' = onToggleDayLock(plans, date, TRUE)
  /\ last' = [NoOp EXCEPT !.op = "buttonLock", !.before = plans, !.date = date]
  /\ UNCHANGED <<tasks, today>>

\* StudyPlanView.handleLockDay on the plan of today or of an upcoming day
HandleLockDay(date) ==
  /\ date \in planDates(plans)
  /\ date >= today
  /\ IF planIsLocked(plans, date)
     THEN /\ plans' = unlockDay(date, plans, Settings).plans
          /\ last' = [NoOp EXCEPT !.op = "unlockDay", !.before = plans, !.date = date,
                                  !.success = unlockDay(date, plans, Settings).ok]
     ELSE /\ plans' = lockDay(date, plans).plans
          /\ last' = [NoOp EXCEPT !.op = "lockDay", !.before = plans, !.date = date,
                                  !.success = lockDay(date, plans).ok]
  /\ UNCHANGED <<tasks, today>>

\* the user marks one of today's sessions done
CompleteSession(k) ==
  LET i == findPlan(plans, today)
  IN /\ i # 0
     /\ k \in 1..Len(plans[i].plannedTasks)
     /\ isOpenSession(plans[i].plannedTasks[k])
     /\ plans' = markSession(plans, today, k, "completed")
     /\ last' = [NoOp EXCEPT !.op = "complete", !.before = plans, !.date = today]
     /\ UNCHANGED <<tasks, today>>

\* the user skips a session of a past day
SkipSession(date, k) ==
  LET i == findPlan(plans, date)
  IN /\ i # 0
     /\ date < today
     /\ k \in 1..Len(plans[i].plannedTasks)
     /\ isOpenSession(plans[i].plannedTasks[k])
     /\ plans' = markSession(plans, date, k, "skipped")
     /\ last' = [NoOp EXCEPT !.op = "skip", !.before = plans, !.date = date]
     /\ UNCHANGED <<tasks, today>>

AdvanceDay(lastDay) ==
  /\ today < lastDay
  /\ today' = today + 1
  /\ last' = [NoOp EXCEPT !.op = "advance", !.before = plans]
  /\ UNCHANGED <<plans, tasks>>

Step(budget) ==
  /\ steps < budget
  /\ steps' = steps + 1
  /\ UNCHANGED <<dvars, uvars>>

Next ==
  \/ Step(MaxSteps) /\ \E mode \in Modes : Generate(mode)
  \/ Step(MaxSteps) /\ \E dateParses \in BOOLEAN : RedistributeMissed(dateParses)
  \/ Step(MaxSteps) /\ Combine
  \/ Step(MaxSteps) /\ BulkRedistribute
  \/ Step(MaxSteps) /\ \E date \in planDates(plans) : ButtonUnlock(date)
  \/ Step(MaxSteps) /\ \E date \in planDates(plans) : ButtonLock(date)
  \/ Step(MaxSteps) /\ \E date \in planDates(plans) : HandleLockDay(date)
  \/ Step(MaxSteps) /\ \E k \in 1..Len(allSessions(plans)) : CompleteSession(k)
  \/ Step(MaxSteps) /\ \E date \in planDates(plans) :
                          \E k \in 1..Len(plans[findPlan(plans, date)].plannedTasks) :
                             SkipSession(date, k)
  \/ Step(MaxSteps) /\ AdvanceDay(MaxToday)

Spec == Init /\ [][Next]_vars

\* the day-after flows over longer runs: plans are generated, days pass, missed
\* sessions are skipped or moved forward, a past day is locked and its sessions
\* evicted, and sessions are combined
NextLong ==
  \/ Step(MaxLongSteps) /\ \E mode \in Modes : Generate(mode)
  \/ Step(MaxLongSteps) /\ \E dateParses \in BOOLEAN : RedistributeMissed(dateParses)
  \/ Step(MaxLongSteps) /\ Combine
  \/ Step(MaxLongSteps) /\ BulkRedistribute
  \/ Step(MaxLongSteps) /\ \E date \in planDates(plans) : ButtonLock(date)
  \/ Step(MaxLongSteps) /\ \E date \in planDates(plans) :
                              \E k \in 1..Len(plans[findPlan(plans, date)].plannedTasks) :
                                 SkipSession(date, k)
  \/ Step(MaxLongSteps) /\ AdvanceDay(MaxLongToday)

SpecLong == Init /\ [][NextLong]_vars

\* ------------------------------------------- the distribution functions run
\* on bounded inputs: 0..MaxDistHours thousandths of an hour, 0..MaxDistDays
MaxDistHours == 1000
MaxDistDays == 27

\* the engine passes two-decimal amounts to the front/back-load strategies
\* (a task's hours minus two-decimal session hours); distributeEvenly also
\* receives the 70/20/10 slices of those, which have three decimals
DistInit ==
  /\ dTotal \in 0..MaxDistHours
  /\ dDays \in 0..MaxDistDays
  /\ dStrategy \in Strategies
  /\ (dStrategy # "even" => dTotal % 10 = 0)
  /\ dOut = <<>>
  /\ dPhase = "input"
  /\ plans = <<>> /\ tasks = <<>> /\ today = 0 /\ last = NoOp /\ steps = 0
  /\ UnitIdle

Distribute ==
  /\ dPhase = "input"
  /\ dOut' = calculateDailyHoursDistribution(dTotal, dDays, dStrategy)
  /\ dPhase' = "output"
  /\ UNCHANGED <<dTotal, dDays, dStrategy>>

DistNext == Distribute /\ UNCHANGED <<mainVars, uvars>>

SpecDist == DistInit /\ [][DistNext]_vars

\* ------------------------------------- single calls on one day's contents
\* a session of the day given by its times, status and done flag
sessionAt(startTime, endTime, status, done) ==
  [taskId |-> 1, startTime |-> startTime, endTime |-> endTime,
   allocatedHours |-> (timeStringToMinutes(endTime) - timeStringToMinutes(startTime))
                        \div TicksPerHourUnit,
   sessionNumber |-> 1, status |-> status, done |-> done,
   originalDate |-> NoDate, originalTime |-> NoTime]

planOf(date, plannedTasks) ==
  [date |-> date, plannedTasks |-> plannedTasks, totalStudyHours |-> totalOf(plannedTasks),
   availableHours |-> Settings.dailyAvailableHours, isLocked |-> FALSE]

\* a one-time commitment on the date
commitmentAt(id, date, startTime, endTime) ==
  [id |-> id, startTime |-> startTime, endTime |-> endTime,
   recurring |-> FALSE, daysOfWeek |-> {}, specificDates |-> {date},
   deletedOccurrences |-> {},
   modifiedOccurrences |-> [d \in {} |-> [startTime |-> NoTime, endTime |-> NoTime]]]

\* clock times before, inside and after the 09:00-12:00 study window
SlotTimes ==
  {Clock(8, 0), Clock(9, 0), Clock(9, 10), Clock(10, 0), Clock(11, 50), Clock(12, 0),
   Clock(13, 0), Clock(14, 0)}

SlotSpans ==
  {span \in SlotTimes \X SlotTimes :
     timeStringToMinutes(span[1]) < timeStringToMinutes(span[2])}

\* getDailyAvailableTimeSlots on a day with at most one session, scheduled or
\* skipped, and at most two one-time commitments
SlotInit ==
  /\ uPlans \in {<<>>} \cup
       {<<planOf(0, <<sessionAt(span[1], span[2], status, FALSE)>>)>> :
          span \in SlotSpans, status \in {"scheduled", "skipped"}}
  /\ uCommitments \in {<<>>} \cup
       {<<commitmentAt(1, 0, span[1], span[2])>> : span \in SlotSpans} \cup
       {<<commitmentAt(1, 0, a[1], a[2]), commitmentAt(2, 0, b[1], b[2])>> :
          a \in SlotSpans, b \in SlotSpans}
  /\ uArgs = <<>>
  /\ uOut = <<>>
  /\ uPhase = "slots"
  /\ plans = <<>> /\ tasks = <<>> /\ today = 0 /\ last = NoOp /\ steps = 0
  /\ DistIdle

FindSlots ==
  /\ uPhase = "slots"
  /\ uOut' = getDailyAvailableTimeSlots(0, uPlans, Settings, uCommitments)
  /\ uPhase' = "slotsFound"
  /\ UNCHANGED <<uPlans, uCommitments, uArgs>>

SlotNext == FindSlots /\ UNCHANGED <<mainVars, dvars>>

SpecSlots == SlotInit /\ [][SlotNext]_vars

\* canLockDay on a day with up to MaxLockSessions sessions of any status
MaxLockSessions == 3

SessionStatuses == {"scheduled", "completed", "skipped", "missed", "rescheduled"}

LockInit ==
  /\ uPlans \in {<<>>} \cup
       {<<planOf(0, [k \in DOMAIN f |->
                      sessionAt(Clock(8 + k, 0), Clock(9 + k, 0), f[k][1], f[k][2])])>> :
          f \in UNION {[1..n -> SessionStatuses \X BOOLEAN] : n \in 0..MaxLockSessions}}
  /\ uCommitments = <<>>
  /\ uArgs = <<>>
  /\ uOut = <<>>
  /\ uPhase = "lock"
  /\ plans = <<>> /\ tasks = <<>> /\ today = 0 /\ last = NoOp /\ steps = 0
  /\ DistIdle

CheckLock ==
  /\ uPhase = "lock"
  /\ uOut' = canLockDay(0, uPlans)
  /\ uPhase' = "lockChecked"
  /\ UNCHANGED <<uPlans, uCommitments, uArgs>>

\* lockDay on the day of the plan or on the day after, which has no plan
LockCall(date) ==
  /\ uPhase = "lock"
  /\ uOut' = lockDay(date, uPlans)
  /\ uArgs' = [date |-> date]
  /\ uPhase' = "locked"
  /\ UNCHANGED <<uPlans, uCommitments>>

\* unlockDay on what lockDay left, on the same day or on another one
UnlockCall(date) ==
  /\ uPhase = "locked"
  /\ uPlans' = uOut.plans
  /\ uOut' = unlockDay(date, uOut.plans, Settings)
  /\ uArgs' = [date |-> date]
  /\ uPhase' = "unlocked"
  /\ UNCHANGED uCommitments

LockNext ==
  \/ CheckLock /\ UNCHANGED <<mainVars, dvars>>
  \/ (\E date \in {0, 1} : LockCall(date)) /\ UNCHANGED <<mainVars, dvars>>
  \/ (\E date \in {0, 1} : UnlockCall(date)) /\ UNCHANGED <<mainVars, dvars>>

SpecLock == LockInit /\ [][LockNext]_vars

\* findNextAvailableTimeSlot and getDailyAvailableTimeSlots on a collection
\* with plans for Wednesday to Friday (days 0 to 2), each absent, unlocked or
\* locked, searched from startDate over maxDaysToSearch days
MaxSearchDays == 4

lockedPlanOf(date, plannedTasks) == [planOf(date, plannedTasks) EXCEPT !.isLocked = TRUE]

\* what a day can hold: nothing, a session that leaves the last hour free, a
\* skipped session, or two sessions that leave three windows
DayContents ==
  { <<>>,
    <<sessionAt(Clock(9, 0), Clock(11, 0), "scheduled", FALSE)>>,
    <<sessionAt(Clock(9, 0), Clock(11, 30), "skipped", FALSE)>>,
    <<sessionAt(Clock(9, 30), Clock(10, 0), "scheduled", FALSE),
      sessionAt(Clock(11, 0), Clock(11, 30), "rescheduled", FALSE)>> }

DayPlans(date) ==
  {<<>>} \cup {<<planOf(date, c)>> : c \in DayContents}
         \cup {<<lockedPlanOf(date, c)>> : c \in DayContents}

SearchHours == {500, 750, 1500, 3000}

FindInit ==
  /\ uPlans \in {a \o b \o c : a \in DayPlans(0), b \in DayPlans(1), c \in DayPlans(2)}
  /\ uCommitments \in {<<>>, FixedCommitments}
  /\ uArgs \in [requiredHours : SearchHours, startDate : 0..3,
                maxDaysToSearch : (0 - 1)..MaxSearchDays]
  /\ uOut = <<>>
  /\ uPhase = "find"
  /\ plans = <<>> /\ tasks = <<>> /\ today = 0 /\ last = NoOp /\ steps = 0
  /\ DistIdle

FindNextSlot ==
  /\ uPhase = "find"
  /\ uOut' = findNextAvailableTimeSlot(uArgs.requiredHours, uArgs.startDate, uPlans, Settings,
                                       uCommitments, uArgs.maxDaysToSearch)
  /\ uPhase' = "found"
  /\ UNCHANGED <<uPlans, uCommitments, uArgs>>

\* the free windows of the start date
DaySlots ==
  /\ uPhase = "find"
  /\ uOut' = getDailyAvailableTimeSlots(uArgs.startDate, uPlans, Settings, uCommitments)
  /\ uPhase' = "daySlots"
  /\ UNCHANGED <<uPlans, uCommitments, uArgs>>

FindNext ==
  \/ FindNextSlot /\ UNCHANGED <<mainVars, dvars>>
  \/ DaySlots /\ UNCHANGED <<mainVars, dvars>>

SpecFind == FindInit /\ [][FindNext]_vars

\* ------------------- single calls of the missed-session redistribution
\* redistributeMissedSessionsWithFeedback called on Friday (day 2) on a
\* collection with plans for the two days before, for today or for nothing
\* else, with sessions of 0.75h each
MissedToday == 2

\* a session of the task and number at the start time, 0.75h long
sessionOf(taskId, sessionNumber, startTime, status, done) ==
  [sessionAt(startTime, addHoursToTime(startTime, 750), status, done)
     EXCEPT !.taskId = taskId, !.sessionNumber = sessionNumber]

\* stored status and done flag of a session of a past day
SessionKinds ==
  { <<"scheduled", FALSE>>, <<"missed", FALSE>>, <<"skipped", FALSE>>,
    <<"completed", TRUE>>, <<"scheduled", TRUE>> }

\* the two sessions of Wednesday (day 0): of task 1, of task 2, or of a task
\* that is no longer in the task list
WednesdaySessions ==
  { <<sessionOf(a[1], 1, Clock(9, 0), a[2][1], a[2][2]),
      sessionOf(b[1], 2, Clock(10, 30), b[2][1], b[2][2])>> :
      a \in {1, 2, 3} \X SessionKinds, b \in {1, 2, 3} \X SessionKinds }

WednesdayPlans ==
  {<<planOf(0, c)>> : c \in WednesdaySessions}
    \cup {<<lockedPlanOf(0, c)>> : c \in WednesdaySessions}

\* Thursday (day 1): no plan, or an open session of task 1 on an unlocked or
\* a locked plan
ThursdayPlans ==
  { <<>>,
    <<planOf(1, <<sessionOf(1, 3, Clock(9, 0), "scheduled", FALSE)>>)>>,
    <<lockedPlanOf(1, <<sessionOf(1, 3, Clock(9, 0), "scheduled", FALSE)>>)>> }

\* today: no plan, a plan whose session leaves 11:00-12:00 free, or that plan
\* locked
FridayPlans ==
  { <<>>,
    <<planOf(MissedToday, <<[sessionAt(Clock(9, 0), Clock(11, 0), "scheduled", FALSE)
                               EXCEPT !.taskId = 2, !.sessionNumber = 4]>>)>>,
    <<lockedPlanOf(MissedToday,
                   <<[sessionAt(Clock(9, 0), Clock(11, 0), "scheduled", FALSE)
                        EXCEPT !.taskId = 2, !.sessionNumber = 4]>>)>> }

\* task 1 is pending, with a deadline that has passed, that leaves today only,
\* or that reaches Monday; task 2 likewise with a deadline ahead, or completed
MissedTaskLists ==
  { <<[Task(1, 3000, d1, i1) EXCEPT !.status = "pending"],
      [Task(2, 3000, d2, i2) EXCEPT !.status = st2]>> :
      d1 \in {1, 3, 6}, i1 \in BOOLEAN, d2 \in {3, 6}, i2 \in BOOLEAN,
      st2 \in {"pending", "completed"} }

MissedInit ==
  /\ plans \in {a \o b \o c : a \in WednesdayPlans, b \in ThursdayPlans, c \in FridayPlans}
  /\ tasks \in {t \in MissedTaskLists :
                  t[2].status = "completed" => (~t[2].importance /\ t[2].deadline = 6)}
  /\ today = MissedToday
  /\ last = NoOp
  /\ steps = 0
  /\ DistIdle
  /\ UnitIdle

MissedNext ==
  Step(MaxSteps) /\ last.op = "none" /\ \E dateParses \in BOOLEAN : RedistributeMissed(dateParses)

SpecMissed == MissedInit /\ [][MissedNext]_vars

\* the two redistribution passes in a row on the same collections: the missed
\* sessions are moved forward, then the locked days are cleared
PassesNext ==
  \/ MissedNext
  \/ Step(MaxSteps) /\ last.op = "missed" /\ BulkRedistribute

SpecPasses == MissedInit /\ [][PassesNext]_vars

\* ------------------------------- single calls of the lock-induced eviction
\* redistributeFromLockedDays called on Wednesday or Thursday on a collection
\* whose Wednesday is locked and holds two sessions; the commitments are none,
\* the usual ones, or a Thursday with a class from 09:00 to 11:30 and a
\* meeting after the study window, from 12:30 to 13:00
EvictInit ==
  /\ uPlans \in {<<lockedPlanOf(0, a)>> \o b \o c :
                   a \in WednesdaySessions, b \in ThursdayPlans, c \in FridayPlans}
  /\ uCommitments \in
       { <<>>, FixedCommitments,
         <<commitmentAt(1, 1, Clock(9, 0), Clock(11, 30)),
           commitmentAt(2, 1, Clock(12, 30), Clock(13, 0))>> }
  /\ uArgs \in [tasks : {t \in MissedTaskLists : ~t[2].importance /\ t[2].deadline = 6},
                today : {0, 1}]
  /\ uOut = <<>>
  /\ uPhase = "evict"
  /\ plans = <<>> /\ tasks = <<>> /\ today = 0 /\ last = NoOp /\ steps = 0
  /\ DistIdle

Evict ==
  /\ uPhase = "evict"
  /\ uOut' = redistributeFromLockedDays(uPlans, uArgs.tasks, Settings, uCommitments, uArgs.today)
  /\ uPhase' = "evicted"
  /\ UNCHANGED <<uPlans, uCommitments, uArgs>>

EvictNext == Evict /\ UNCHANGED <<mainVars, dvars>>

SpecEvict == EvictInit /\ [][EvictNext]_vars

\* ------------------------------------- single generations in eisenhower mode
\* generateNewStudyPlan on Wednesday for three pending tasks of 0.5h or 1h,
\* important or not, due on Saturday (3 days ahead: urgent), on Sunday or on
\* Monday, with no plan yet
EisenInit ==
  /\ plans = <<>>
  /\ tasks \in {<<Task(1, a[1], a[2], a[3]), Task(2, b[1], b[2], b[3]),
                  Task(3, c[1], c[2], c[3])>> :
                  a \in {500, 1000} \X {3, 4, 5} \X BOOLEAN,
                  b \in {500, 1000} \X {3, 4, 5} \X BOOLEAN,
                  c \in {500, 1000} \X {3, 4, 5} \X BOOLEAN}
  /\ today = 0
  /\ last = NoOp
  /\ steps = 0
  /\ DistIdle
  /\ UnitIdle

EisenNext == Step(MaxSteps) /\ last.op = "none" /\ Generate("eisenhower")

SpecEisen == EisenInit /\ [][EisenNext]_vars

\* ------------------------------------------------------------------ claims
Abs(x) == IF x < 0 THEN -x ELSE x

\* the rounding tolerance of the distribution functions: 0.01h
Tolerance == HourUnit \div 100

\* C7: for every strategy, totalHours >= 0 and dayCount >= 1,
\* calculateDailyHoursDistribution returns dayCount non-negative entries that
\* sum to totalHours within 0.01h; for dayCount = 0 it returns the empty vector
C7_DistributionSumsToTotal ==
  dPhase = "output" =>
    IF dDays = 0 THEN dOut = <<>>
    ELSE /\ Len(dOut) = dDays
         /\ \A i \in 1..Len(dOut) : dOut[i] >= 0
         /\ Abs(SumSeq(dOut) - dTotal) <= Tolerance

\* C8: distributeEvenly(H, n), n >= 1, returns n entries that sum to H within
\* 0.01h, any two of which differ by at most 0.25h, and that never increase
\* with the day index
C8_EvenSpread ==
  (dPhase = "output" /\ dStrategy = "even" /\ dDays >= 1) =>
    /\ Len(dOut) = dDays
    /\ Abs(SumSeq(dOut) - dTotal) <= Tolerance
    /\ \A i, j \in 1..Len(dOut) : dOut[i] - dOut[j] <= QuarterHour
    /\ \A i \in 1..(Len(dOut) - 1) : dOut[i] >= dOut[i + 1]

\* a remainder above 0.25h: the first day gets the 0.25h cap, the second day
\* the rest
C8_Witness ==
  /\ dPhase = "output" /\ dStrategy = "even" /\ dDays >= 3
  /\ dOut[1] = dOut[dDays] + QuarterHour
  /\ dOut[2] > dOut[dDays]

\* ---------------------------------------------- claims about the plan engine
sessionsOn(studyPlans, date) ==
  LET i == findPlan(studyPlans, date)
  IN IF i = 0 THEN <<>> ELSE studyPlans[i].plannedTasks

SeqToSet(s) == {s[k] : k \in 1..Len(s)}

lockedDates(studyPlans) ==
  {studyPlans[i].date : i \in {j \in 1..Len(studyPlans) : studyPlans[j].isLocked}}

\* the plan of the date is in both collections, locked in the second, with
\* the same sessions in the same order
samePlanKept(originalPlans, updatedPlans, date) ==
  /\ findPlan(updatedPlans, date) # 0
  /\ planIsLocked(updatedPlans, date)
  /\ sessionsOn(updatedPlans, date) = sessionsOn(originalPlans, date)

scheduledHours(task, studyPlans) ==
  sumHours(SelectSeq(allSessions(studyPlans),
                     LAMBDA s : s.taskId = task.id /\ s.status # "skipped"))

\* C2: no task is ever over-scheduled: in every state reached by generation,
\* the two redistributions, combination, locking and unlocking, the hours of a
\* task's non-skipped sessions are at most its estimatedHours
C2_NeverOverScheduled ==
  \A k \in 1..Len(tasks) : scheduledHours(tasks[k], plans) <= tasks[k].estimatedHours

\* the strategy the generator of the mode gives the task
strategyIn(mode, task, allTasks, studyPlans, day) ==
  IF mode = "eisenhower"
  THEN LET withHours == withRemainingHours(allTasks, studyPlans)
           hits == {k \in 1..Len(withHours) : withHours[k].id = task.id}
       IN IF hits = {} THEN "even"
          ELSE getTaskDistributionStrategy(withHours[SetMin(hits)],
                                           categorizeTasksEisenhower(withHours, day))
  ELSE "even"

\* what the last generation assigned to the task: its eligible days and the
\* hours of each
assignedDays(task) ==
  getAvailableDaysForTask(task, last.before, settingsFor(last.mode), today)

assignedHours(task) ==
  calculateDailyHoursDistribution(calculateRemainingTaskHours(task, last.before),
                                  Len(assignedDays(task)),
                                  strategyIn(last.mode, task, tasks, last.before, today))

\* every day of the task with hours assigned holds a session of those hours
allAssignedPlaced(task) ==
  \A i \in 1..Len(assignedDays(task)) :
     assignedHours(task)[i] > 0 =>
       \E s \in SeqToSet(sessionsOn(plans, assignedDays(task)[i])) :
          s.taskId = task.id /\ s.allocatedHours = assignedHours(task)[i] /\ isOpenSession(s)

lockedHours(task, studyPlans) ==
  sumHours(SelectSeq(allSessions(studyPlans),
                     LAMBDA s : s.taskId = task.id /\ isSessionLocked(s, studyPlans)))

placedHours(task, studyPlans) ==
  sumHours(SelectSeq(allSessions(studyPlans),
                     LAMBDA s : s.taskId = task.id /\ isOpenSession(s)
                                /\ ~isSessionLocked(s, studyPlans)))

hasClosedSession(task, studyPlans) ==
  \E s \in SeqToSet(allSessions(studyPlans)) : s.taskId = task.id /\ ~isOpenSession(s)

\* C3: after a generation in any mode, a pending task that has an eligible
\* unlocked day, and free windows for all the hours assigned to its days, has
\* its locked hours plus its newly placed hours equal to estimatedHours; stated
\* for tasks with no done or skipped session, and up to 0.01h of rounding per
\* eligible day
C3_NoUnderScheduling ==
  last.op = "generate" =>
    \A k \in 1..Len(tasks) :
       (/\ tasks[k].status = "pending"
        /\ ~hasClosedSession(tasks[k], last.before)
        /\ calculateRemainingTaskHours(tasks[k], last.before) > 0
        /\ assignedDays(tasks[k]) # <<>>
        /\ allAssignedPlaced(tasks[k]))
       => Abs(lockedHours(tasks[k], plans) + placedHours(tasks[k], plans)
              - tasks[k].estimatedHours)
            <= Tolerance * Len(assignedDays(tasks[k]))

\* C4: generateNewStudyPlan run again on its own output, with the same tasks,
\* settings and commitments on the same day, returns that output unchanged
C4_GenerateIdempotent ==
  last.op = "generate" =>
    generateNewStudyPlan(tasks, settingsFor(last.mode), FixedCommitments, plans, today) = plans

\* a generation that replaced earlier sessions and kept a completed one
C4_Witness ==
  /\ last.op = "generate"
  /\ plans # last.before
  /\ last.before # <<>>
  /\ \E s \in SeqToSet(allSessions(plans)) : s.status = "completed"

withinCapacity(studyPlans) ==
  \A i \in 1..Len(studyPlans) :
     ~studyPlans[i].isLocked =>
        totalOf(studyPlans[i].plannedTasks) <= Settings.dailyAvailableHours

\* C5: after generateNewStudyPlan the non-skipped hours of every unlocked day
\* are at most settings.dailyAvailableHours, if they were so in the input
C5_DailyCapacityRespected ==
  (last.op = "generate" /\ withinCapacity(last.before)) => withinCapacity(plans)

overlaps(a, b) == a.start < b.end /\ b.start < a.end

\* the sessions of the date that the last operation created
createdOn(date) ==
  {k \in 1..Len(sessionsOn(plans, date)) :
     sessionsOn(plans, date)[k] \notin SeqToSet(sessionsOn(last.before, date))}

\* C6: a session created by generateNewStudyPlan or by
\* redistributeMissedSessionsWithFeedback overlaps no other non-skipped session
\* of its day and no fixed commitment that applies to the date, with the date's
\* modification and deletion taken into account
C6_NoOverlap ==
  last.op \in {"generate", "missed"} =>
    \A date \in planDates(plans) :
       \A k \in createdOn(date) :
          LET mine == sessionInterval(sessionsOn(plans, date)[k])
          IN /\ \A j \in 1..Len(sessionsOn(plans, date)) :
                   (j # k /\ sessionsOn(plans, date)[j].status # "skipped")
                     => ~overlaps(mine, sessionInterval(sessionsOn(plans, date)[j]))
             /\ \A c \in SeqToSet(commitmentIntervals(FixedCommitments, date)) :
                   ~overlaps(mine, c)

\* a missed session moved onto a day that holds another session and a
\* commitment
C6_Witness ==
  /\ last.op = "missed"
  /\ \E date \in planDates(plans) :
        /\ \E k \in createdOn(date) : sessionsOn(plans, date)[k].status = "rescheduled"
        /\ Len(sessionsOn(plans, date)) >= 2
        /\ commitmentIntervals(FixedCommitments, date) # <<>>

replacedElsewhere(s, date) ==
  \E m \in SeqToSet(last.moved) :
     /\ sameSession(m, s)
     /\ m.originalDate = date
     /\ m.allocatedHours = s.allocatedHours
     /\ \E target \in planDates(plans) \ (lockedDates(last.before) \cup {date}) :
           m \in SeqToSet(sessionsOn(plans, target))

C10_OtherLockedDaysUnchanged ==
  last.op = "buttonUnlock" =>
    \A date \in lockedDates(last.before) \ {last.date} :
       sessionsOn(plans, date) = sessionsOn(last.before, date)

\* the passes that create or move sessions
SchedulingOps == {"generate", "missed", "bulk", "buttonUnlock"}

\* the sessions of the collection that the last pass created: not in the
\* collection before, and not one of the sessions the pass moved
createdSessions ==
  SeqToSet(allSessions(plans)) \ (SeqToSet(allSessions(last.before)) \cup SeqToSet(last.moved))

\* C11: across generation and redistribution passes, every session newly
\* created for a task gets a sessionNumber strictly greater than every
\* sessionNumber the task had before the pass, so that a number freed by a
\* purge or a move is never given to a later session
C11_SessionNumbersNeverReused ==
  last.op \in SchedulingOps =>
    \A s \in createdSessions :
       \A o \in SeqToSet(allSessions(last.before)) :
          o.taskId = s.taskId => s.sessionNumber > o.sessionNumber

totalsConsistent(studyPlans) ==
  \A i \in 1..Len(studyPlans) :
     studyPlans[i].totalStudyHours = totalOf(studyPlans[i].plannedTasks)

\* C12: from plans whose totalStudyHours is the sum of allocatedHours over
\* their sessions with status other than skipped, every plan returned by
\* generateNewStudyPlan, redistributeMissedSessionsWithFeedback,
\* redistributeFromLockedDays and combineSessionsOnSameDay satisfies that
\* equality again
C12_TotalsRecomputed ==
  (last.op \in SchedulingOps \cup {"combine"} /\ totalsConsistent(last.before))
    => totalsConsistent(plans)

C14_CombineLeavesInputUnchanged ==
  last.op = "combine" =>
    /\ Len(last.input) = Len(last.before)
    /\ \A i \in 1..Len(last.before) :
          /\ last.input[i].plannedTasks = last.before[i].plannedTasks
          /\ last.input[i].totalStudyHours = last.before[i].totalStudyHours

\* the number of sessions of the collection with the session's task and number
copiesOf(session, studyPlans) ==
  Len(SelectSeq(allSessions(studyPlans), LAMBDA s : sameSession(s, session)))

\* C15: when redistributeMissedSessionsWithFeedback moves a missed session of
\* a pending task from an unlocked past day, the original is no longer in the
\* origin plan, and exactly one session of that task with the same hours and
\* sessionNumber is in the collection, on a work day on or after today and
\* before the task's buffered deadline, with status rescheduled, originalDate
\* the origin date and originalTime the old startTime
C15_MissedSessionMoved ==
  last.op = "missed" =>
    \A m \in SeqToSet(last.moved) :
       /\ m.originalDate < today
       /\ ~planIsLocked(last.before, m.originalDate)
       /\ \E o \in SeqToSet(sessionsOn(last.before, m.originalDate)) :
             /\ sameSession(o, m)
             /\ o.allocatedHours = m.allocatedHours
             /\ o.startTime = m.originalTime
       /\ \A s \in SeqToSet(sessionsOn(plans, m.originalDate)) : ~sameSession(s, m)
       /\ copiesOf(m, plans) = 1
       /\ m.status = "rescheduled"
       /\ \E d \in planDates(plans) :
             /\ m \in SeqToSet(sessionsOn(plans, d))
             /\ d >= today
             /\ d < bufferedDeadline(tasks[findTask(tasks, m.taskId)], Settings)
             /\ getDay(d) \in Settings.workDays

\* a missed session moved from yesterday to a later day than today
C15_Witness ==
  /\ last.op = "missed"
  /\ \E m \in SeqToSet(last.moved) :
        /\ m.originalDate = today - 1
        /\ \E d \in planDates(plans) : d > today /\ m \in SeqToSet(sessionsOn(plans, d))

openOf(sessions, taskId) ==
  SelectSeq(sessions, LAMBDA s : isOpenSession(s) /\ s.taskId = taskId)

\* the bounds on the hours of a merged session
mergeableHours(totalHours) ==
  /\ totalHours * MinutesPerHour >= Settings.minSessionLength * HourUnit
  /\ totalHours <= Min2(4 * HourUnit, Settings.dailyAvailableHours)

\* the single session that stands for the group
isMergeOf(merged, group) ==
  /\ timeStringToMinutes(merged.startTime)
       = SetMin({timeStringToMinutes(group[k].startTime) : k \in 1..Len(group)})
  /\ merged.allocatedHours = sumHours(group)
  /\ timeStringToMinutes(merged.endTime)
       = timeStringToMinutes(merged.startTime) + sumHours(group) * TicksPerHourUnit
  /\ merged.sessionNumber = SetMin({group[k].sessionNumber : k \in 1..Len(group)})

\* C17: on an unlocked day, for each task with more than one session that is
\* not skipped, done or completed, combineSessionsOnSameDay replaces the group
\* by a single session iff the summed hours lie in
\* [minSessionLength, min(4, dailyAvailableHours)]; the merged session starts
\* at the group's earliest startTime, has the summed hours, ends at start + sum
\* and carries the group's minimum sessionNumber; otherwise the group is left
\* as it was
C17_CombineMergesGroups ==
  last.op = "combine" =>
    \A i \in 1..Len(last.before) :
       ~last.before[i].isLocked =>
         \A t \in 1..Len(tasks) :
            LET group == openOf(last.before[i].plannedTasks, tasks[t].id)
                after == openOf(plans[i].plannedTasks, tasks[t].id)
            IN Len(group) > 1 =>
                 IF mergeableHours(sumHours(group))
                 THEN Len(after) = 1 /\ isMergeOf(after[1], group)
                 ELSE after = group

\* the hours the task has after a generation: on locked days plus newly placed
totalAfter(task, studyPlans) == lockedHours(task, studyPlans) + placedHours(task, studyPlans)

\* C18: for the same tasks, commitments and existing plans, regenerating under
\* studyPlanMode even, balanced or eisenhower yields the same total scheduled
\* hours per task (hours on locked days plus newly placed hours), and
\* regenerating under another mode without advancing time leaves every
\* locked-day session unchanged
C18_ModesScheduleSameHours ==
  last.op = "generate" =>
    /\ \A mode \in Modes : \A k \in 1..Len(tasks) :
          totalAfter(tasks[k],
                     generateNewStudyPlan(tasks, settingsFor(mode), FixedCommitments,
                                          last.before, today))
            = totalAfter(tasks[k], plans)
    /\ \A date \in lockedDates(last.before) :
          sessionsOn(plans, date) = sessionsOn(last.before, date)

\* the hours of the task's open sessions on days that are not locked
placedAmounts(task, studyPlans) ==
  {s.allocatedHours : s \in {x \in SeqToSet(allSessions(studyPlans)) :
                               x.taskId = task.id /\ isOpenSession(x)
                               /\ ~isSessionLocked(x, studyPlans)}}

\* what C19 promises a task of the last (even-mode) generation
evenlyPlaced(task) ==
  LET h == lockedHours(task, last.before)
      k == Len(assignedDays(task))
  IN /\ placedHours(task, plans) = task.estimatedHours - h
     /\ lockedHours(task, plans) = h
     /\ \A a, b \in placedAmounts(task, plans) : a - b <= QuarterHour
     /\ (task.estimatedHours - h) % (10 * k) = 0
          => placedAmounts(task, plans) = {(task.estimatedHours - h) \div k}
     /\ scheduledHours(task, plans) = task.estimatedHours

\* a task the last generation had hours to place for, on days with room
evenCase(task) ==
  /\ last.op = "generate" /\ last.mode = "even"
  /\ task.status = "pending"
  /\ calculateRemainingTaskHours(task, last.before) > 0
  /\ assignedDays(task) # <<>>
  /\ allAssignedPlaced(task)

\* C19 as stated: in even mode, a pending task with h hours on locked days and
\* k >= 1 eligible unlocked days with room gets exactly estimatedHours - h
\* hours on those days and none on a locked day, in amounts that differ by at
\* most 0.25h (equal when the hours divide evenly), and its total over all
\* plans is estimatedHours
C19_EvenModePlacesRemainder ==
  \A k \in 1..Len(tasks) : evenCase(tasks[k]) => evenlyPlaced(tasks[k])

\* C19 amended: the same, for a task none of whose sessions is done,
\* completed or skipped
C19_EvenModePlacesRemainderOfOpenTask ==
  \A k \in 1..Len(tasks) :
     (evenCase(tasks[k]) /\ ~hasClosedSession(tasks[k], last.before))
       => evenlyPlaced(tasks[k])

\* an even-mode generation for a task that has hours on a locked day
C19_Witness ==
  \E k \in 1..Len(tasks) :
     /\ evenCase(tasks[k])
     /\ ~hasClosedSession(tasks[k], last.before)
     /\ lockedHours(tasks[k], last.before) > 0
     /\ placedHours(tasks[k], plans) > 0

\* a session that stands in the way of locking its day
outstanding(session) ==
  ~(session.done \/ session.status \in {"completed", "skipped", "missed"})

\* C16: canLockDay(date) returns canLock = true exactly when the date has no
\* plan or every session on it is done, completed, skipped or has stored
\* status missed; otherwise canLock = false with pendingSessions the number of
\* sessions that are none of those (scheduled and rescheduled sessions count)
C16_CanLockDay ==
  uPhase = "lockChecked" =>
    LET sessions == IF uPlans = <<>> THEN <<>> ELSE uPlans[1].plannedTasks
        pending == {k \in 1..Len(sessions) : outstanding(sessions[k])}
    IN /\ uOut.canLock = (pending = {})
       /\ ~uOut.canLock => uOut.pendingSessions = Cardinality(pending)

\* a day refused for its one rescheduled session among stored-missed,
\* skipped or done ones
C16_Witness ==
  /\ uPhase = "lockChecked"
  /\ ~uOut.canLock /\ uOut.pendingSessions = 1
  /\ \E k \in 1..Len(uPlans[1].plannedTasks) :
        uPlans[1].plannedTasks[k].status = "rescheduled" /\ ~uPlans[1].plannedTasks[k].done
  /\ \E k \in 1..Len(uPlans[1].plannedTasks) : uPlans[1].plannedTasks[k].status = "missed"

\* C20: every free window returned by getDailyAvailableTimeSlots lies inside
\* the study window, lasts at least minSessionLength, overlaps no busy
\* interval of the day, and the windows come in increasing start order without
\* overlapping each other, for every combination of sessions and commitments,
\* commitments that start after the study window ends included
C20_FreeWindowsInsideStudyWindow ==
  uPhase = "slotsFound" =>
    LET window(k) == [start |-> timeStringToMinutes(uOut[k].start),
                      end |-> timeStringToMinutes(uOut[k].end)]
    IN /\ \A k \in 1..Len(uOut) :
             /\ window(k).start >= Settings.studyWindowStartHour * TicksPerHour
             /\ window(k).end <= Settings.studyWindowEndHour * TicksPerHour
             /\ window(k).end - window(k).start >= Settings.minSessionLength * TicksPerMinute
             /\ \A b \in SeqToSet(busyIntervalsOf(0, uPlans, uCommitments)) :
                   ~overlaps(window(k), b)
       /\ \A k \in 1..(Len(uOut) - 1) : window(k).end <= window(k + 1).start

\* the date has a plan whose isLocked flag is set
lockedOn(studyPlans, date) ==
  \E i \in 1..Len(studyPlans) : studyPlans[i].date = date /\ studyPlans[i].isLocked

\* C21: getDailyAvailableTimeSlots returns the empty list for a day whose plan
\* is locked, and findNextAvailableTimeSlot never returns a date whose plan is
\* locked or whose weekday is not in settings.workDays
C21_LockedDaysOfferNothing ==
  /\ (uPhase = "daySlots" /\ lockedOn(uPlans, uArgs.startDate)) => uOut = <<>>
  /\ (uPhase = "found" /\ uOut.found) =>
       /\ ~lockedOn(uPlans, uOut.date)
       /\ getDay(uOut.date) \in Settings.workDays

\* a search that passed over a locked day with a free window, and over the
\* weekend, before it found its date
C21_Witness ==
  /\ uPhase = "found" /\ uOut.found
  /\ \E d \in uArgs.startDate..(uOut.date - 1) :
        /\ lockedOn(uPlans, d)
        /\ firstFit(slotsIgnoringLock(d, uPlans, Settings, uCommitments),
                    uArgs.requiredHours) # 0
  /\ \E d \in uArgs.startDate..(uOut.date - 1) : getDay(d) \notin Settings.workDays

\* the dates of the horizon that are unlocked work days with a free window of
\* at least the required hours
fittingDates(requiredHours, startDate, studyPlans, fixedCommitments, maxDaysToSearch) ==
  {d \in startDate..(startDate + maxDaysToSearch - 1) :
     /\ getDay(d) \in Settings.workDays
     /\ ~lockedOn(studyPlans, d)
     /\ \E w \in SeqToSet(getDailyAvailableTimeSlots(d, studyPlans, Settings, fixedCommitments)) :
           w.duration >= requiredHours * TicksPerHourUnit}

\* the first window of the date, in the order of the list, that is long enough
firstWindow(requiredHours, date, studyPlans, fixedCommitments) ==
  LET windows == getDailyAvailableTimeSlots(date, studyPlans, Settings, fixedCommitments)
  IN windows[SetMin({k \in 1..Len(windows) :
                       windows[k].duration >= requiredHours * TicksPerHourUnit})]

\* C26: findNextAvailableTimeSlot(hours, fromDate, maxDays) returns the
\* earliest date in [fromDate, fromDate + maxDays) that is an unlocked work day
\* with a free window of at least hours, with startTime the start of the first
\* such window of that day and endTime exactly hours later; it returns null iff
\* there is no such date in the horizon, in particular when maxDays <= 0
C26_EarliestFittingSlot ==
  uPhase = "found" =>
    LET fitting == fittingDates(uArgs.requiredHours, uArgs.startDate, uPlans, uCommitments,
                                uArgs.maxDaysToSearch)
    IN IF fitting = {} THEN ~uOut.found
       ELSE /\ uOut.found
            /\ uOut.date = SetMin(fitting)
            /\ uOut.startTime
                 = firstWindow(uArgs.requiredHours, uOut.date, uPlans, uCommitments).start
            /\ timeStringToMinutes(uOut.endTime)
                 = timeStringToMinutes(uOut.startTime)
                   + uArgs.requiredHours * TicksPerHourUnit

\* a slot found after the start date, in a window that is not the first of its
\* day and that it does not fill
C26_Witness ==
  /\ uPhase = "found" /\ uOut.found
  /\ uOut.date > uArgs.startDate
  /\ getDay(uArgs.startDate) \in Settings.workDays /\ ~lockedOn(uPlans, uArgs.startDate)
  /\ LET windows == getDailyAvailableTimeSlots(uOut.date, uPlans, Settings, uCommitments)
     IN /\ Len(windows) >= 3
        /\ uOut.startTime # windows[1].start
        /\ \E k \in 1..Len(windows) :
              windows[k].start = uOut.startTime /\ windows[k].end # uOut.endTime

\* the hours of the task's sessions that are done, completed or skipped, or
\* that sit on a plan with the isLocked flag, plan by plan
RECURSIVE settledHours(_, _)
settledHours(task, studyPlans) ==
  IF studyPlans = <<>> THEN 0
  ELSE sumHours(SelectSeq(Head(studyPlans).plannedTasks,
                  LAMBDA s : /\ s.taskId = task.id
                             /\ \/ s.done \/ s.status \in {"completed", "skipped"}
                                \/ Head(studyPlans).isLocked))
       + settledHours(task, Tail(studyPlans))

\* C22: calculateRemainingTaskHours(task, plans) is max(0, estimatedHours - S),
\* S being the hours of exactly those sessions of the task that are done,
\* completed, skipped or on a locked plan; the task's other sessions on
\* unlocked plans contribute nothing, and the result is never negative
C22_RemainingHours ==
  last.op = "generate" =>
    \A k \in 1..Len(tasks) :
       /\ calculateRemainingTaskHours(tasks[k], last.before)
            = Max2(0, tasks[k].estimatedHours - settledHours(tasks[k], last.before))
       /\ calculateRemainingTaskHours(tasks[k], last.before) >= 0

\* a generation for a task that has a completed session, an open session on a
\* locked day and an open session on an unlocked day
C22_Witness ==
  /\ last.op = "generate"
  /\ \E k \in 1..Len(tasks) :
        /\ \E s \in SeqToSet(allSessions(last.before)) :
              s.taskId = tasks[k].id /\ s.status = "completed"
        /\ \E i \in 1..Len(last.before) :
              /\ last.before[i].isLocked
              /\ \E s \in SeqToSet(last.before[i].plannedTasks) :
                    s.taskId = tasks[k].id /\ isOpenSession(s)
        /\ \E i \in 1..Len(last.before) :
              /\ ~last.before[i].isLocked
              /\ \E s \in SeqToSet(last.before[i].plannedTasks) :
                    s.taskId = tasks[k].id /\ isOpenSession(s)
        /\ calculateRemainingTaskHours(tasks[k], last.before) > 0

\* the work days strictly between the two dates whose plan is not locked
daysStrictlyBetween(from, to, studyPlans) ==
  {d \in (from + 1)..(to - 1) :
     getDay(d) \in Settings.workDays /\ ~lockedOn(studyPlans, d)}

\* the dates that hold a session of the task created by the last operation
createdDatesOf(task) ==
  {date \in planDates(plans) :
     \E k \in createdOn(date) : sessionsOn(plans, date)[k].taskId = task.id}

\* C23: the eligible days of a task are exactly the work weekdays strictly
\* between today and the deadline minus bufferDays whose plan is not locked
\* (neither today nor the buffered deadline day is eligible), and generation
\* places no session of the task outside that set
C23_EligibleDaysStrictlyBetween ==
  last.op = "generate" =>
    \A k \in 1..Len(tasks) :
       LET eligible == daysStrictlyBetween(today, bufferedDeadline(tasks[k], Settings),
                                           last.before)
       IN /\ SeqToSet(assignedDays(tasks[k])) = eligible
          /\ createdDatesOf(tasks[k]) \subseteq eligible

\* C24: a locked day that holds no sessions is treated like an unlocked day by
\* generation: it is an eligible day of every task for which it would be
\* eligible without its lock
C24_EmptyLockedDayEligible ==
  last.op = "generate" =>
    \A date \in lockedDates(last.before) :
       sessionsOn(last.before, date) = <<>> =>
         \A k \in 1..Len(tasks) :
            inSeq(date, getAvailableDaysForTask(tasks[k],
                          onToggleDayLock(last.before, date, FALSE),
                          settingsFor(last.mode), today))
              => inSeq(date, assignedDays(tasks[k]))

\* the sizes of the three thirds of n days
thirdSizes(n) == <<CeilDiv(n, 3), CeilDiv(2 * n, 3) - CeilDiv(n, 3), n - CeilDiv(2 * n, 3)>>

\* the shares of the thirds in tenths of the total
thirdShares(strategy) == IF strategy = "front-load" THEN <<7, 2, 1>> ELSE <<1, 2, 7>>

\* the hours, times ten, that the distribution gives the j-th third
thirdSum(distribution, j) ==
  LET sizes == thirdSizes(Len(distribution))
      before == IF j = 1 THEN 0 ELSE IF j = 2 THEN sizes[1] ELSE sizes[1] + sizes[2]
  IN 10 * SumSeq(SubSeq(distribution, before + 1, before + sizes[j]))

\* each third with days holds its share of the total to within `slack` tenths
\* of a thousandth of an hour, a third without days holds nothing, and so one
\* day gets the first share only and two days get the first two shares
thirdsHold(slack) ==
  LET sizes == thirdSizes(dDays)
      shares == thirdShares(dStrategy)
  IN /\ Len(dOut) = dDays
     /\ sizes[1] + sizes[2] + sizes[3] = dDays
     /\ \A j \in 1..3 :
           /\ sizes[j] >= 0
           /\ sizes[j] > 0 => Abs(thirdSum(dOut, j) - shares[j] * dTotal) <= slack
     /\ dDays = 1 => Abs(10 * SumSeq(dOut) - shares[1] * dTotal) <= slack
     /\ dDays = 2 => Abs(10 * SumSeq(dOut) - (shares[1] + shares[2]) * dTotal) <= 2 * slack

\* C25 as stated: distributeFrontLoad and distributeBackLoad split n days into
\* thirds of ceil(n/3), ceil(2n/3) - ceil(n/3) and n - ceil(2n/3) days and give
\* them 70%/20%/10% (front) or 10%/20%/70% (back) of totalHours; the share of
\* a third without days is dropped, so that one day gets 70% (front) or 10%
\* (back) of totalHours and two days get 90% (front) or 30% (back)
C25_ThirdsGetTheirShares ==
  (dPhase = "output" /\ dStrategy # "even" /\ dDays >= 1) => thirdsHold(0)

\* C25 amended: the same, each third's hours being its share to within 0.01h
C25_ThirdsGetTheirSharesRounded ==
  (dPhase = "output" /\ dStrategy # "even" /\ dDays >= 1) => thirdsHold(10 * Tolerance)

\* back-load over two days: the final third has no day and its 70% is dropped,
\* and the 10% of the first day is rounded to hundredths
C25_Witness ==
  /\ dPhase = "output" /\ dStrategy = "back-load" /\ dDays = 2 /\ dTotal > 0
  /\ dOut[1] > 0 /\ dOut[2] > 0
  /\ 10 * dOut[1] # dTotal
  /\ 10 * SumSeq(dOut) < 4 * dTotal

\* ------------------------------- claims about the missed-session redistribution
\* a session that the redistribution has to consider: on an unlocked plan dated
\* before today, of a pending task of the list, not done, completed or skipped
considered(session, plan) ==
  /\ plan.date < today
  /\ ~plan.isLocked
  /\ ~session.done
  /\ session.status \notin {"completed", "skipped"}
  /\ findTask(tasks, session.taskId) # 0
  /\ tasks[findTask(tasks, session.taskId)].status = "pending"

consideredSessions(studyPlans) ==
  UNION {{s \in SeqToSet(studyPlans[i].plannedTasks) : considered(s, studyPlans[i])} :
           i \in 1..Len(studyPlans)}

wasMoved(session) == \E m \in SeqToSet(last.moved) : sameSession(m, session)

hasFailed(session) == session \in SeqToSet(last.failed)

\* the failed sessions are where they were, and the outcome counts add up
\* (stated for sessions that end on a whole minute, whose end the source can
\* compare with the clock: each considered session is then found missed)
failuresReported ==
  /\ \A f \in SeqToSet(last.failed) :
        \E i \in 1..Len(last.before) :
           /\ f \in SeqToSet(last.before[i].plannedTasks)
           /\ plans[i].date = last.before[i].date
           /\ f \in SeqToSet(plans[i].plannedTasks)
  /\ last.details.totalMissed
       = last.details.successfullyMoved + last.details.failedToMove
  /\ last.details.successfullyMoved = Len(last.moved)
  /\ last.details.failedToMove = Len(last.failed)
  /\ last.details.totalMissed = Cardinality(consideredSessions(last.before))
  /\ \A c \in consideredSessions(last.before) : wasMoved(c) # hasFailed(c)

\* C27 as stated: a missed session for which no slot is found before the
\* buffered deadline stays in its origin plan with every field unchanged and is
\* listed in failedSessions; totalMissed = successfullyMoved + failedToMove,
\* each candidate is in exactly one of movedSessions and failedSessions, and
\* feedback.success is true iff at least one session was moved
C27_FailedSessionsStay ==
  last.op = "missed" =>
    /\ failuresReported
    /\ last.success <=> Len(last.moved) > 0

\* C27 amended: the same, with feedback.success true iff a session was moved
\* or there was no missed session to move
C27_FailedSessionsStayOrNoneMissed ==
  last.op = "missed" =>
    /\ failuresReported
    /\ last.success <=> (Len(last.moved) > 0 \/ last.details.totalMissed = 0)

\* one session moved and another one failed
C27_Witness ==
  /\ last.op = "missed"
  /\ last.moved # <<>> /\ last.failed # <<>>
  /\ last.success

\* the priority score as specified
specifiedPriority(task) ==
  (IF task.importance THEN 1000 ELSE 0)
  + (IF task.deadline < today THEN 2000 ELSE Max2(0, 100 - (task.deadline - today)))

\* C28: the priority score of a missed session is 1000 if its task is
\* important, plus 2000 if the task's deadline has already passed, otherwise
\* plus max(0, 100 - daysUntilDeadline); so a missed session of a task whose
\* deadline has passed scores at least 2000 and comes before every session of
\* a task whose deadline has not passed
C28_PassedDeadlineFirst ==
  last.op = "missed" =>
    LET missedSessions == sortByPriority(collectMissed(last.before, tasks, today, TRUE))
    IN /\ \A k \in 1..Len(missedSessions) :
             missedSessions[k].priority = specifiedPriority(missedSessions[k].task)
       /\ \A j, k \in 1..Len(missedSessions) :
             (/\ missedSessions[j].task.deadline < today
              /\ missedSessions[k].task.deadline >= today)
               => /\ missedSessions[j].priority >= 2000
                  /\ j < k

\* the place a moved session was given: its date and start
placeOf(session) ==
  LET m == CHOOSE x \in SeqToSet(last.moved) : sameSession(x, session)
      d == CHOOSE date \in planDates(plans) : m \in SeqToSet(sessionsOn(plans, date))
  IN [date |-> d, start |-> timeStringToMinutes(m.startTime)]

notLater(p, q) == p.date < q.date \/ (p.date = q.date /\ p.start <= q.start)

taskOf(session) == tasks[findTask(tasks, session.taskId)]

\* C29: the missed sessions are processed in non-increasing priority order,
\* each seeing the placements of the ones before it, and every missed session
\* of an important task is offered a slot before any missed session of a
\* non-important task whose deadline has not passed: of two missed sessions of
\* equal hours and equal buffered deadline the important one never fails
\* while the other is moved, and never lands on a later slot
C29_ImportantServedFirst ==
  last.op = "missed" =>
    \A a, b \in consideredSessions(last.before) :
       (/\ taskOf(a).importance /\ ~taskOf(b).importance
        /\ taskOf(b).deadline >= today
        /\ a.allocatedHours = b.allocatedHours
        /\ bufferedDeadline(taskOf(a), Settings) = bufferedDeadline(taskOf(b), Settings))
         => /\ ~(hasFailed(a) /\ wasMoved(b))
            /\ (wasMoved(a) /\ wasMoved(b)) => notLater(placeOf(a), placeOf(b))

\* the important task's session stood after the other one in the plan and was
\* moved to the only slot of today, and the other one failed or went to Monday
C29_Witness ==
  /\ last.op = "missed"
  /\ \E i \in 1..Len(last.before) :
        \E j, k \in 1..Len(last.before[i].plannedTasks) :
           LET a == last.before[i].plannedTasks[k]
               b == last.before[i].plannedTasks[j]
           IN /\ j < k
              /\ considered(a, last.before[i]) /\ considered(b, last.before[i])
              /\ taskOf(a).importance /\ ~taskOf(b).importance
              /\ taskOf(a).deadline = taskOf(b).deadline
              /\ wasMoved(a) /\ placeOf(a).date = today
              /\ (hasFailed(b) \/ (wasMoved(b) /\ placeOf(b).date > today))

\* C30: redistributeMissedSessionsWithFeedback considers only sessions on
\* plans dated strictly before today that are not locked, whose task exists
\* and is pending, and that are neither done, completed nor skipped; every
\* other session (of today or a future day, of a locked day, of a non-pending
\* or unknown task, or done, completed or skipped) keeps its plan, time, hours
\* and status
C30_OnlyMissedSessionsTouched ==
  last.op = "missed" =>
    /\ \A s \in SeqToSet(last.moved) \cup SeqToSet(last.failed) :
          \E c \in consideredSessions(last.before) : sameSession(c, s)
    /\ \A i \in 1..Len(last.before) :
          /\ plans[i].date = last.before[i].date
          /\ \A s \in SeqToSet(last.before[i].plannedTasks) :
                ~considered(s, last.before[i]) => s \in SeqToSet(plans[i].plannedTasks)

\* a call that moved a session and left alone a session of a locked past day,
\* a session of today, and a session of the origin day that was skipped, done
\* or of a task that is not pending
C30_Witness ==
  /\ last.op = "missed"
  /\ last.moved # <<>>
  /\ \E i \in 1..Len(last.before) :
        /\ last.before[i].date < today /\ last.before[i].isLocked
        /\ \E s \in SeqToSet(last.before[i].plannedTasks) : isOpenSession(s)
  /\ \E i \in 1..Len(last.before) :
        last.before[i].date = today /\ last.before[i].plannedTasks # <<>>
  /\ \E i \in 1..Len(last.before) :
        /\ last.before[i].date < today /\ ~last.before[i].isLocked
        /\ \E s \in SeqToSet(last.before[i].plannedTasks) : ~considered(s, last.before[i])
        /\ \E s \in SeqToSet(last.before[i].plannedTasks) : wasMoved(s)

\* ---------------------------------------- claims about the lock-induced eviction
\* the sessions of locked days that an eviction pass has to move: those of a
\* pending task of the list
evictionCandidates(studyPlans, taskList) ==
  UNION {{s \in SeqToSet(studyPlans[i].plannedTasks) :
            /\ findTask(taskList, s.taskId) # 0
            /\ taskList[findTask(taskList, s.taskId)].status = "pending"} :
           i \in {j \in 1..Len(studyPlans) : studyPlans[j].isLocked}}

\* the moved session m sits at position k of the plan: the day is in the
\* horizon and not after the buffered deadline, a work day, unlocked, not the
\* origin, the load up to and including m fits the day, and m's range is in
\* the study window and clear of the earlier sessions and of the commitments
landsWell(m, plan, k, task, fixedCommitments, from) ==
  /\ plan.plannedTasks[k] = m
  /\ plan.date \in from..(from + RedistributionHorizon - 1)
  /\ plan.date <= bufferedDeadline(task, Settings)
  /\ getDay(plan.date) \in Settings.workDays
  /\ ~plan.isLocked
  /\ plan.date # m.originalDate
  /\ sumHours(SubSeq(plan.plannedTasks, 1, k)) <= Settings.dailyAvailableHours
  /\ timeStringToMinutes(m.startTime) >= Settings.studyWindowStartHour * TicksPerHour
  /\ timeStringToMinutes(m.endTime) <= Settings.studyWindowEndHour * TicksPerHour
  /\ \A j \in 1..(k - 1) :
        ~overlaps(sessionInterval(m), sessionInterval(plan.plannedTasks[j]))
  /\ \A c \in SeqToSet(commitmentIntervals(fixedCommitments, plan.date)) :
        ~overlaps(sessionInterval(m), c)

\* C31: every session that redistributeFromLockedDays moves lands on a day of
\* the 14 days from today, not after the buffered deadline, that is a work
\* day, unlocked and not the origin, and whose load with the session is at most
\* dailyAvailableHours; its new range lies in the study window and overlaps no
\* session that was on the day nor a commitment of that date; a session that
\* is not moved is reported failed and stays where it was
C31_EvictedSessionsLandWell ==
  uPhase = "evicted" =>
    /\ \A m \in SeqToSet(uOut.redistributedSessions) :
          \E i \in 1..Len(uOut.modifiedPlans) :
             \E k \in 1..Len(uOut.modifiedPlans[i].plannedTasks) :
                landsWell(m, uOut.modifiedPlans[i], k,
                          uArgs.tasks[findTask(uArgs.tasks, m.taskId)],
                          uCommitments, uArgs.today)
    /\ \A f \in SeqToSet(uOut.failedSessions) :
          \E i \in 1..Len(uPlans) :
             /\ f \in SeqToSet(uPlans[i].plannedTasks)
             /\ uOut.modifiedPlans[i].date = uPlans[i].date
             /\ f \in SeqToSet(uOut.modifiedPlans[i].plannedTasks)
    /\ \A c \in evictionCandidates(uPlans, uArgs.tasks) :
          (c \in SeqToSet(uOut.failedSessions))
            # (\E m \in SeqToSet(uOut.redistributedSessions) : sameSession(m, c))

\* ------------------------------------------ claims about session conservation
\* what identifies a session and must survive a move
identityOf(session) == <<session.taskId, session.sessionNumber, session.allocatedHours>>

countOf(x, studyPlans) ==
  Cardinality({k \in 1..Len(allSessions(studyPlans)) : identityOf(allSessions(studyPlans)[k]) = x})

pairsUnique(studyPlans) ==
  \A j, k \in 1..Len(allSessions(studyPlans)) :
     sameSession(allSessions(studyPlans)[j], allSessions(studyPlans)[k]) => j = k

\* the same multiset of (taskId, sessionNumber, allocatedHours), and every
\* session is as it was or is one of the moved ones with only its times,
\* status and provenance changed
sessionsConserved(before, after, moved) ==
  /\ \A x \in {identityOf(s) : s \in SeqToSet(allSessions(before)) \cup SeqToSet(allSessions(after))} :
        countOf(x, before) = countOf(x, after)
  /\ \A s \in SeqToSet(allSessions(after)) :
        \/ s \in SeqToSet(allSessions(before))
        \/ /\ s \in SeqToSet(moved)
           /\ \E b \in SeqToSet(allSessions(before)) :
                 s = [b EXCEPT !.startTime = s.startTime, !.endTime = s.endTime,
                               !.status = s.status, !.originalDate = s.originalDate,
                               !.originalTime = s.originalTime]

\* C32: on plans with unique (taskId, sessionNumber) pairs both redistribution
\* passes conserve the sessions: the multiset of (taskId, sessionNumber,
\* allocatedHours) over all plans is the same before and after, and only the
\* date, times, status and provenance of moved sessions differ
C32_SessionsConserved ==
  (last.op \in {"missed", "bulk"} /\ pairsUnique(last.before)) =>
     sessionsConserved(last.before, plans, last.moved)

\* an eviction has moved a session off a locked day after the missed-session
\* pass had moved another one off a past day
C32_Witness ==
  /\ last.op = "bulk"
  /\ pairsUnique(last.before)
  /\ last.moved # <<>>
  /\ \E b \in SeqToSet(allSessions(last.before)) :
        /\ b.status = "rescheduled"
        /\ b.originalDate # NoDate
        /\ \A m \in SeqToSet(last.moved) : ~sameSession(m, b)

\* ------------------------------------------------- claims about the lock paths
\* C33: through every lock path (handleLockDay behind canLockDay, the lock
\* button behind validateDayLock, with or without its confirmation dialog) a
\* day never becomes locked while it holds a session that is not done,
\* completed, skipped or missed
C33_NoOutstandingSessionLocked ==
  \A date \in planDates(plans) :
     (last.op \in {"lockDay", "buttonLock"} /\ planIsLocked(plans, date)
        /\ ~planIsLocked(last.before, date))
       => \A s \in SeqToSet(sessionsOn(plans, date)) : ~outstanding(s)

\* the plans of the other dates are what they were, and the plan of the date
\* holds the sessions it held
onlyFlagsOf(date, before, after) ==
  /\ \A i \in 1..Len(before) : before[i].date # date => after[i] = before[i]
  /\ sessionsOn(after, date) = sessionsOn(before, date)
  /\ planDates(after) \subseteq planDates(before) \cup {date}
  /\ Len(after) = Cardinality(planDates(after))

\* C34: lockDay returns false and changes nothing when canLockDay refuses;
\* otherwise it sets isLocked on the date's plan, creating an empty locked plan
\* when there is none, and changes nothing else. unlockDay returns false and
\* changes nothing when the date has no plan; otherwise it sets isLocked to
\* false and availableHours to dailyAvailableHours. Neither adds, removes or
\* edits a session nor touches the plan of another date
C34_LockAndUnlockOnlyFlipFlags ==
  /\ uPhase = "locked" =>
       IF ~canLockDay(uArgs.date, uPlans).canLock
       THEN ~uOut.ok /\ uOut.plans = uPlans
       ELSE /\ uOut.ok
            /\ onlyFlagsOf(uArgs.date, uPlans, uOut.plans)
            /\ planIsLocked(uOut.plans, uArgs.date)
            /\ IF findPlan(uPlans, uArgs.date) = 0
               THEN uOut.plans[Len(uOut.plans)].plannedTasks = <<>>
               ELSE uOut.plans = [uPlans EXCEPT ![findPlan(uPlans, uArgs.date)].isLocked = TRUE]
  /\ uPhase = "unlocked" =>
       IF findPlan(uPlans, uArgs.date) = 0
       THEN ~uOut.ok /\ uOut.plans = uPlans
       ELSE /\ uOut.ok
            /\ onlyFlagsOf(uArgs.date, uPlans, uOut.plans)
            /\ uOut.plans =
                 [uPlans EXCEPT ![findPlan(uPlans, uArgs.date)].isLocked = FALSE,
                                ![findPlan(uPlans, uArgs.date)].availableHours =
                                    Settings.dailyAvailableHours]

\* the day after the plan's day was locked, which created an empty locked plan
\* with no available hours, and unlocking it has reset its available hours
C34_Witness ==
  /\ uPhase = "unlocked"
  /\ uOut.ok
  /\ Len(uPlans) = 2
  /\ uPlans[1].plannedTasks # <<>>
  /\ uPlans[2].isLocked /\ uPlans[2].availableHours = 0
  /\ ~uOut.plans[2].isLocked /\ uOut.plans[2].availableHours = Settings.dailyAvailableHours

\* --------------------------------------- claims about the integrity validation
\* every plan locked in before is in after, still locked, with as many
\* sessions, each with the times and hours of the session at its index
integrityKept(before, after) ==
  \A i \in 1..Len(before) :
     before[i].isLocked =>
       \E u \in 1..Len(after) :
          /\ after[u].date = before[i].date
          /\ after[u].isLocked
          /\ Len(after[u].plannedTasks) = Len(before[i].plannedTasks)
          /\ \A k \in 1..Len(before[i].plannedTasks) :
                /\ after[u].plannedTasks[k].startTime = before[i].plannedTasks[k].startTime
                /\ after[u].plannedTasks[k].endTime = before[i].plannedTasks[k].endTime
                /\ after[u].plannedTasks[k].allocatedHours
                     = before[i].plannedTasks[k].allocatedHours

\* the collections that differ from studyPlans by one change to one locked
\* day: the plan removed, unlocked, a session removed or added, or a start,
\* an end or the hours of a session changed
tamperedWith(studyPlans) ==
  UNION {
    { removeAt(studyPlans, i),
      [studyPlans EXCEPT ![i].isLocked = FALSE],
      [studyPlans EXCEPT ![i].plannedTasks =
         Append(@, sessionAt(Clock(9, 0), Clock(10, 0), "scheduled", FALSE))] }
    \cup {[studyPlans EXCEPT ![i].plannedTasks = removeAt(@, k)] :
            k \in 1..Len(studyPlans[i].plannedTasks)}
    \cup {[studyPlans EXCEPT ![i].plannedTasks[k].startTime = addHoursToTime(@, 250)] :
            k \in 1..Len(studyPlans[i].plannedTasks)}
    \cup {[studyPlans EXCEPT ![i].plannedTasks[k].endTime = addHoursToTime(@, 250)] :
            k \in 1..Len(studyPlans[i].plannedTasks)}
    \cup {[studyPlans EXCEPT ![i].plannedTasks[k].allocatedHours = @ + 250] :
            k \in 1..Len(studyPlans[i].plannedTasks)}
    : i \in {j \in 1..Len(studyPlans) : studyPlans[j].isLocked} }

\* C35: validateLockedDaysIntegrity(before, after) is valid iff every plan
\* locked in before exists in after, is still locked, has the same number of
\* sessions, each with the start, end and hours of the session at the same
\* index; a collection is valid against itself, and a removal, an unlocking,
\* an added or removed session or a changed time on a locked day is a violation
\* (compared are the collections before and after each operation, both ways)
C35_IntegrityValidation ==
  /\ validateLockedDaysIntegrity(plans, plans).isValid
  /\ validateLockedDaysIntegrity(last.before, plans).isValid
       <=> integrityKept(last.before, plans)
  /\ validateLockedDaysIntegrity(plans, last.before).isValid
       <=> integrityKept(plans, last.before)
  /\ validateLockedDaysIntegrity(last.before, plans).isValid
       <=> (validateLockedDaysIntegrity(last.before, plans).violations = 0)
  /\ \A changed \in tamperedWith(plans) :
        /\ ~validateLockedDaysIntegrity(plans, changed).isValid
        /\ ~integrityKept(plans, changed)

\* an eviction took a session off a day that stays locked, which the
\* validation reports, and read backwards the session was added to it
C35_Witness ==
  /\ last.op = "bulk"
  /\ \E i \in 1..Len(last.before) :
        /\ last.before[i].isLocked /\ plans[i].isLocked
        /\ Len(plans[i].plannedTasks) < Len(last.before[i].plannedTasks)
  /\ ~validateLockedDaysIntegrity(last.before, plans).isValid
  /\ ~validateLockedDaysIntegrity(plans, last.before).isValid
  /\ validateLockedDaysIntegrity(plans, plans).isValid
  /\ Cardinality(tamperedWith(plans)) > 4

\* ------------------------------------------- claims about the eisenhower mode
\* the quadrant of a task: 1 important and urgent, 2 important, 3 urgent, 4
\* neither, urgent meaning a deadline at most 3 days ahead
quadrantOf(task) ==
  IF task.importance
  THEN (IF task.deadline - today <= 3 THEN 1 ELSE 2)
  ELSE (IF task.deadline - today <= 3 THEN 3 ELSE 4)

quadrantStrategy(task) ==
  IF quadrantOf(task) \in {1, 3} THEN "front-load"
  ELSE IF quadrantOf(task) = 2 THEN "even" ELSE "back-load"

\* the tasks in the order of their quadrants, input order kept inside one
quadrantOrder ==
  SelectSeq(tasks, LAMBDA t : quadrantOf(t) = 1) \o SelectSeq(tasks, LAMBDA t : quadrantOf(t) = 2)
    \o SelectSeq(tasks, LAMBDA t : quadrantOf(t) = 3) \o SelectSeq(tasks, LAMBDA t : quadrantOf(t) = 4)

placeInOrder(taskId) == CHOOSE k \in 1..Len(quadrantOrder) : quadrantOrder[k].id = taskId

\* the hours that the quadrant's strategy gives the task on its eligible days
quadrantHours(task) ==
  calculateDailyHoursDistribution(calculateRemainingTaskHours(task, last.before),
                                  Len(assignedDays(task)), quadrantStrategy(task))

\* C36: in eisenhower mode the tasks are scheduled in the order
\* Important-Urgent, Important-Not-Urgent, Not-Important-Urgent,
\* Not-Important-Not-Urgent (urgent: deadline within 3 days), in input order
\* inside a quadrant; an urgent task is front-loaded, an important task that is
\* not urgent is spread evenly, a task that is neither is back-loaded; a task
\* scheduled earlier is never displaced by a later one: its sessions are those
\* it gets when the later tasks are not there at all
C36_EisenhowerOrderAndStrategy ==
  (last.op = "generate" /\ last.mode = "eisenhower") =>
    /\ \A date \in planDates(plans) :
          \A j, k \in createdOn(date) :
             j < k => placeInOrder(sessionsOn(plans, date)[j].taskId)
                        <= placeInOrder(sessionsOn(plans, date)[k].taskId)
    /\ \A t \in 1..Len(tasks) :
          \A i \in 1..Len(assignedDays(tasks[t])) :
             \A k \in createdOn(assignedDays(tasks[t])[i]) :
                sessionsOn(plans, assignedDays(tasks[t])[i])[k].taskId = tasks[t].id
                  => sessionsOn(plans, assignedDays(tasks[t])[i])[k].allocatedHours
                       = quadrantHours(tasks[t])[i]
    /\ \A n \in 1..Len(quadrantOrder) :
          \A date \in planDates(plans) :
             sessionsOn(generateNewStudyPlan(SubSeq(quadrantOrder, 1, n),
                                             settingsFor("eisenhower"), FixedCommitments,
                                             last.before, today), date)
               = SelectSeq(sessionsOn(plans, date),
                           LAMBDA s : placeInOrder(s.taskId) <= n)

\* the first task in the list is neither important nor urgent and the other
\* two are both; on Wednesday the second task has the first window, the third
\* the next and the first the last, the urgent ones with front-loaded hours
C36_Witness ==
  /\ last.op = "generate" /\ last.mode = "eisenhower"
  /\ quadrantOf(tasks[1]) = 4 /\ quadrantOf(tasks[2]) = 1 /\ quadrantOf(tasks[3]) = 1
  /\ Len(sessionsOn(plans, 0)) = 3
  /\ sessionsOn(plans, 0)[1].taskId = 2
  /\ sessionsOn(plans, 0)[2].taskId = 3
  /\ sessionsOn(plans, 0)[3].taskId = 1
  /\ timeStringToMinutes(sessionsOn(plans, 0)[1].endTime)
       <= timeStringToMinutes(sessionsOn(plans, 0)[2].startTime)
  /\ timeStringToMinutes(sessionsOn(plans, 0)[2].endTime)
       <= timeStringToMinutes(sessionsOn(plans, 0)[3].startTime)
  /\ 2 * sessionsOn(plans, 0)[1].allocatedHours > tasks[2].estimatedHours
  /\ 2 * sessionsOn(plans, 0)[3].allocatedHours < tasks[1].estimatedHours

\* ------------------------------------------- claims about the session numbers
\* the collection at the moment the last generation numbers its sessions: the
\* one before, without the sessions the generation purges
purgedBefore ==
  IF withRemainingHours(tasks, last.before) = <<>> THEN last.before
  ELSE purgeAll(withRemainingHours(tasks, last.before), last.before)

\* where the last generation appended sessions of the task: date and index
appendedFor(taskId) ==
  {p \in UNION {{<<date, k>> : k \in 1..Len(sessionsOn(plans, date))} : date \in planDates(plans)} :
     /\ p[2] > Len(sessionsOn(purgedBefore, p[1]))
     /\ sessionsOn(plans, p[1])[p[2]].taskId = taskId}

highestNumber(taskId, studyPlans) ==
  SetMax({0} \cup {s.sessionNumber : s \in {x \in SeqToSet(allSessions(studyPlans)) : x.taskId = taskId}})

\* C37: from a collection with unique (taskId, sessionNumber) pairs,
\* generation, missed-session redistribution, lock eviction and combination
\* keep the pairs unique over all plans; the sessions that a generation
\* creates for a task are numbered consecutively from 1 + the highest
\* sessionNumber of the task in the plans at that moment
C37_SessionNumbersUnique ==
  /\ pairsUnique(plans)
  /\ last.op = "generate" =>
       \A t \in 1..Len(tasks) :
          {sessionsOn(plans, p[1])[p[2]].sessionNumber : p \in appendedFor(tasks[t].id)}
            = (highestNumber(tasks[t].id, purgedBefore) + 1)
                ..(highestNumber(tasks[t].id, purgedBefore)
                     + Cardinality(appendedFor(tasks[t].id)))

\* a generation that kept a session of a task, on a locked day or skipped, and
\* numbered at least two new ones after it
C37_Witness ==
  /\ last.op = "generate"
  /\ \E t \in 1..Len(tasks) :
        /\ highestNumber(tasks[t].id, purgedBefore) > 0
        /\ Cardinality(appendedFor(tasks[t].id)) >= 2
        /\ highestNumber(tasks[t].id, plans) > Cardinality(appendedFor(tasks[t].id))

\* --------------------------------------------- claims about session merging
\* no two sessions of the day that are not skipped overlap in time
overlapFree(sessions) ==
  \A j, k \in 1..Len(sessions) :
     (j < k /\ sessions[j].status # "skipped" /\ sessions[k].status # "skipped")
       => ~overlaps(sessionInterval(sessions[j]), sessionInterval(sessions[k]))

\* C38: combineSessionsOnSameDay never creates a time overlap: an unlocked day
\* whose non-skipped sessions do not overlap before the call has none that
\* overlap after it, also when a session of another task lies between the
\* merged ones
C38_CombineCreatesNoOverlap ==
  last.op = "combine" =>
    \A i \in 1..Len(last.before) :
       (~last.before[i].isLocked /\ overlapFree(last.before[i].plannedTasks))
         => overlapFree(plans[i].plannedTasks)

\* ------------------------------------------------ claims about closed sessions
\* C39: no engine pass (generation, missed-session redistribution, lock
\* eviction, combination) changes the status of, moves or removes a session
\* that is completed, skipped or done: it stays on its day as it was
C39_ClosedSessionsStay ==
  last.op \in {"generate", "missed", "bulk", "combine"} =>
    \A i \in 1..Len(last.before) :
       \A s \in SeqToSet(last.before[i].plannedTasks) :
          ~isOpenSession(s) =>
             /\ plans[i].date = last.before[i].date
             /\ s \in SeqToSet(plans[i].plannedTasks)

\* the hours of the task's sessions on the day, whatever their status
taskHoursOn(sessions, taskId) == sumHours(SelectSeq(sessions, LAMBDA s : s.taskId = taskId))

\* C40: combineSessionsOnSameDay is idempotent and conserves hours: applied to
\* its own result it changes nothing, and for every plan and task the sum of
\* allocatedHours of the task's sessions on the day is the same before and
\* after the call
C40_CombineIdempotentAndConserving ==
  last.op = "combine" =>
    /\ combineSessionsOnSameDay(plans, Settings) = plans
    /\ \A i \in 1..Len(last.before) :
          /\ plans[i].date = last.before[i].date
          /\ \A taskId \in {s.taskId : s \in SeqToSet(last.before[i].plannedTasks)
                                        \cup SeqToSet(plans[i].plannedTasks)} :
                taskHoursOn(plans[i].plannedTasks, taskId)
                  = taskHoursOn(last.before[i].plannedTasks, taskId)

\* a call that merged two sessions of a task into one on a day that holds a
\* session of another task too
C40_Witness ==
  /\ last.op = "combine"
  /\ \E i \in 1..Len(last.before) :
        /\ Len(plans[i].plannedTasks) < Len(last.before[i].plannedTasks)
        /\ Cardinality({s.taskId : s \in SeqToSet(plans[i].plannedTasks)}) > 1

====
